---- MODULE Spec2Model ----
(***************************************************************************)
(* A model of the in-memory key-value server: the shared keyspace          *)
(* (store.rs), the list, stream, string and sorted-set commands that run   *)
(* against it (commands/*.rs, datatypes/sorted_set.rs) and the blocking    *)
(* pop with its per-key notifier.                                          *)
(*                                                                         *)
(* Every connection is one task.  A step of a task is the code it runs     *)
(* from one acquisition of the keyspace mutex, or one wake-up of select!,  *)
(* to the next.  The notifier-registry mutex is never held across an await *)
(* point, so what runs under it is part of one step.                       *)
(* Time is counted in milliseconds, the unit of utils::now_millis.         *)
(***************************************************************************)
EXTENDS Integers, Sequences, FiniteSets, TLC

\* ------------------------------------------------------------------ bounds
NumClients == 2      \* connections served at the same time
MaxLen == 3          \* longest list a push may build
MaxPush == 2         \* values carried by one RPUSH / LPUSH
MaxQueue == 2        \* longest list under fair scheduling, pushed one value at a time
MaxIdx == 4          \* LRANGE / ZRANGE indexes range over -MaxIdx..MaxIdx
MaxCount == 2        \* LPOP counts range over 1..MaxCount
MaxTimeout == 2      \* BLPOP timeouts (timeout * 1000) range over 0..MaxTimeout
MaxPx == 2           \* SET ... PX values range over 0..MaxPx
MaxNow == 3          \* milliseconds that pass while SET and GET are observed
MaxScore == 2        \* ZADD scores range over 1..MaxScore
MaxPairs == 2        \* (score, member) pairs carried by one ZADD
MaxFlags == 2        \* flags carried by one ZADD
MaxReads == 2        \* reads of one connection that return bytes

Clients == 1..NumClients
Keys == {"k"}
Vals == {"a", "b"}
EntryIds == {"e1", "e2"}
\* the members of sorted sets, in the order of String::cmp
MemberOrder == <<"m", "n", "o">>
Members == {MemberOrder[i] : i \in DOMAIN MemberOrder}
Scores == 1..MaxScore
\* the words a ZADD may carry between the key and the first score
FlagWords == {"NX", "XX", "GT", "LT", "CH", "INCR", "nx"}
NoClient == 0

\* ------------------------------------------------------------- sequences
Min(a, b) == IF a < b THEN a ELSE b
Max(a, b) == IF a > b THEN a ELSE b

RECURSIVE Reverse(_)
Reverse(s) == IF s = <<>> THEN <<>> ELSE Append(Reverse(Tail(s)), Head(s))

\* non-empty sequences over S of length at most n
SeqsUpTo(S, n) == UNION {[1..m -> S] : m \in 1..n}

\* Option<T> is a sequence of length 0 (None) or 1 (Some).
Some(x) == <<x>>
None == <<>>

\* ----------------------------------------------------------- sorted set
\* datatypes/sorted_set.rs.  A score is an f64 compared with total_cmp, which
\* is a total order; the scores of the model are integers.
SortedValue(member, score) == [member |-> member, score |-> score]
SortedValues == {SortedValue(m, x) : m \in Members, x \in Scores}

total_cmp(a, b) == IF a < b THEN "Less" ELSE IF a > b THEN "Greater" ELSE "Equal"

\* String::cmp
member_cmp(a, b) ==
    LET rank(m) == CHOOSE i \in DOMAIN MemberOrder : MemberOrder[i] = m
    IN  total_cmp(rank(a), rank(b))

\* a variant of the order that looks at the member before the score
cmp_member_first(a, b) ==
    IF member_cmp(a.member, b.member) # "Equal"
    THEN member_cmp(a.member, b.member)
    ELSE total_cmp(a.score, b.score)

\* impl Ord for SortedValue: score.total_cmp, then_with member.cmp
cmp(a, b) ==
    IF total_cmp(a.score, b.score) # "Equal"
    THEN total_cmp(a.score, b.score)
    ELSE member_cmp(a.member, b.member)

\* impl PartialEq for SortedValue
eq(a, b) == a.member = b.member /\ total_cmp(a.score, b.score) = "Equal"

\* BTreeSet<SortedValue>: a set in which no two values compare Equal
set_insert(set, value) ==
    IF \E w \in set : cmp(w, value) = "Equal" THEN set ELSE set \cup {value}

set_remove(set, value) == {w \in set : cmp(w, value) # "Equal"}

\* set.iter(): the values in ascending order
RECURSIVE iter(_)
iter(set) ==
    IF set = {} THEN <<>>
    ELSE LET least == CHOOSE v \in set : \A w \in set : cmp(v, w) # "Greater"
         IN  <<least>> \o iter(set \ {least})

\* BTreeMap<String, SortedValue>: the values, at most one for a member
map_get(map, member) ==
    LET hit == {v \in map : v.member = member}
    IN  IF hit = {} THEN None ELSE Some(CHOOSE v \in hit : TRUE)

map_insert(map, value) == {v \in map : v.member # value.member} \cup {value}

map_remove(map, member) == {v \in map : v.member # member}

\* RedisSortedSet::new
RedisSortedSet == [set |-> {}, map |-> {}]

\* a variant of replace that counts an update as an insert
replace_counting_all(ss, value) ==
    LET old_value == map_get(ss.map, value.member)
        set1 == IF old_value # None THEN set_remove(ss.set, old_value[1]) ELSE ss.set
    IN  [count |-> 1,
         ss |-> [set |-> set_insert(set1, value), map |-> map_insert(ss.map, value)]]

\* RedisSortedSet::replace: the count of inserted values and the set after
replace(ss, value) ==
    LET old_value == map_get(ss.map, value.member)
        set1 == IF old_value # None THEN set_remove(ss.set, old_value[1]) ELSE ss.set
    IN  [count |-> IF old_value # None THEN 0 ELSE 1,
         ss |-> [set |-> set_insert(set1, value), map |-> map_insert(ss.map, value)]]

\* a variant of remove_by_member that leaves the ordered set alone
remove_from_map(ss, member) ==
    LET old_value == map_get(ss.map, member)
    IN  [count |-> IF old_value # None THEN 1 ELSE 0,
         ss |-> [set |-> ss.set, map |-> map_remove(ss.map, member)]]

\* RedisSortedSet::remove_by_member
remove_by_member(ss, member) ==
    LET old_value == map_get(ss.map, member)
    IN  [count |-> IF old_value # None THEN 1 ELSE 0,
         ss |-> [set |-> IF old_value # None THEN set_remove(ss.set, old_value[1])
                         ELSE ss.set,
                 map |-> map_remove(ss.map, member)]]

\* set.iter().position(|item| item == value), for the value the map holds
get_rank_by_member(ss, member) ==
    LET value == map_get(ss.map, member)
        items == iter(ss.set)
    IN  IF value = None THEN None
        ELSE IF \E i \in 1..Len(items) : eq(items[i], value[1])
        THEN Some((CHOOSE i \in 1..Len(items) : eq(items[i], value[1])) - 1)
        ELSE None

\* self.map.len()
len(ss) == Cardinality(ss.map)

\* set.iter().skip(start).take(end - start + 1)
range(ss, start, end) ==
    LET items == iter(ss.set)
    IN  SubSeq(items, start + 1, Min(end + 1, Len(items)))

get_score_by_member(ss, member) ==
    LET value == map_get(ss.map, member)
    IN  IF value = None THEN None ELSE Some(value[1].score)

\* f64::to_string of the scores of the model
f64_to_string(x) == ToString(x)

\* -------------------------------------------------------- stored values
\* store.rs imports RedisType with the variants String, List, ZSet, Stream;
\* an absent key is the value NoneV.
\* expired_at_millis: None
NoExpiry == 0 - 1

NoneV == [tag |-> "none", list |-> <<>>, stream |-> {}, str |-> "",
          exp |-> NoExpiry, zset |-> RedisSortedSet]
ListV(l) == [NoneV EXCEPT !.tag = "list", !.list = l]
StreamV(e) == [NoneV EXCEPT !.tag = "stream", !.stream = e]
StringV(s) == [NoneV EXCEPT !.tag = "string", !.str = s]
\* RedisKeyValue { value, expired_at_millis }
KeyValueV(s, e) == [StringV(s) EXCEPT !.exp = e]
ZSetV(z) == [NoneV EXCEPT !.tag = "zset", !.zset = z]

\* ------------------------------------------------------ protocol values
Null == [t |-> "null"]
NullArray == [t |-> "nullarray"]
Integer(n) == [t |-> "int", n |-> n]
bulk_string(s) == [t |-> "bulk", s |-> s]
Array(a) == [t |-> "array", a |-> a]
error(m) == [t |-> "error", m |-> m]
simple_string(s) == [t |-> "simple", s |-> s]
ok == simple_string("OK")
\* a task that panicked produced no reply
Panic == [t |-> "panic"]

\* ------------------------------------------------------------------- RESP
\* a byte is a one-character string, a Vec<u8> a sequence of bytes
SYMBOL_END_COMMAND == <<"\r", "\n">>

Digits == <<"0", "1", "2", "3", "4", "5", "6", "7", "8", "9">>

\* format!("{}", n) of an integer
RECURSIVE format(_)
format(n) ==
    IF n < 0 THEN <<"-">> \o format(0 - n)
    ELSE IF n < 10 THEN <<Digits[n + 1]>>
    ELSE format(n \div 10) \o <<Digits[(n % 10) + 1]>>

\* str::parse::<i64>: an optional sign, then one digit or more; the words of
\* the model are too short to overflow an i64
str_parse(word) ==
    LET signed == word # <<>> /\ word[1] \in {"+", "-"}
        body == IF signed THEN Tail(word) ELSE word
        digit(b) == (CHOOSE i \in 1..10 : Digits[i] = b) - 1
        RECURSIVE value(_)
        value(w) == IF w = <<>> THEN 0
                    ELSE 10 * value(SubSeq(w, 1, Len(w) - 1)) + digit(w[Len(w)])
    IN  IF body = <<>> \/ \E i \in 1..Len(body) : \A d \in 1..10 : Digits[d] # body[i]
        THEN None
        ELSE Some(IF signed /\ word[1] = "-" THEN 0 - value(body) ELSE value(body))

\* RespDataType::serialize
RECURSIVE serialize(_)
serialize(v) ==
    LET RECURSIVE extend(_)
        extend(arr) == IF arr = <<>> THEN <<>>
                       ELSE serialize(Head(arr)) \o extend(Tail(arr))
    IN  CASE v.t = "simple" -> <<"+">> \o v.s \o SYMBOL_END_COMMAND
          [] v.t = "error" -> <<"-">> \o v.m \o SYMBOL_END_COMMAND
          [] v.t = "int" -> <<":">> \o format(v.n) \o SYMBOL_END_COMMAND
          [] v.t = "bulk" -> <<"$">> \o format(Len(v.s)) \o SYMBOL_END_COMMAND
                                 \o v.s \o SYMBOL_END_COMMAND
          [] v.t = "array" -> <<"*">> \o format(Len(v.a)) \o SYMBOL_END_COMMAND
                                  \o extend(v.a)
          [] v.t = "nullarray" -> <<"*", "-", "1">> \o SYMBOL_END_COMMAND
          [] OTHER -> <<"$", "-", "1">> \o SYMBOL_END_COMMAND

\* read_next_word: the bytes before the first \r; the \r and the byte after
\* it are consumed
read_next_word(bytes) ==
    LET ends == {i \in 1..Len(bytes) : bytes[i] = "\r"}
        stop == CHOOSE i \in ends : \A j \in ends : i <= j
    IN  IF ends = {} THEN [word |-> bytes, rest |-> <<>>]
        ELSE [word |-> SubSeq(bytes, 1, stop - 1),
              rest |-> SubSeq(bytes, stop + 2, Len(bytes))]

\* _parse: what it pushes to results (one value or none) and the bytes it
\* leaves in the iterator; ok is FALSE when an unwrap panics.  Every byte of
\* the model is ASCII, so String::from_utf8 succeeds.
RECURSIVE _parse(_)
_parse(values_iter) ==
    LET aborted == [ok |-> FALSE, out |-> <<>>, rest |-> <<>>]
        pushed(v, rest) == [ok |-> TRUE, out |-> <<v>>, rest |-> rest]
        next == read_next_word(Tail(values_iter))
        number == str_parse(next.word)
        RECURSIVE elements(_, _, _)
        elements(length, bytes, current_array_elements) ==
            IF length <= 0
            THEN pushed(Array(current_array_elements), bytes)
            ELSE LET one == _parse(bytes)
                 IN  IF ~one.ok THEN aborted
                     ELSE elements(length - 1, one.rest,
                                   current_array_elements \o one.out)
    IN  IF values_iter = <<>> THEN aborted
        ELSE CASE Head(values_iter) = "+" -> pushed(simple_string(next.word), next.rest)
               [] Head(values_iter) = "-" -> pushed(error(next.word), next.rest)
               [] Head(values_iter) = ":" ->
                    IF number = None THEN aborted
                    ELSE pushed(Integer(number[1]), next.rest)
               [] Head(values_iter) = "$" ->
                    IF number = None THEN aborted
                    ELSE IF number[1] = 0 - 1 THEN pushed(Null, next.rest)
                    ELSE LET content == read_next_word(next.rest)
                         IN  pushed(bulk_string(content.word), content.rest)
               [] Head(values_iter) = "*" ->
                    IF number = None THEN aborted
                    ELSE IF number[1] = 0 - 1 THEN pushed(Null, next.rest)
                    ELSE elements(number[1], next.rest, <<>>)
               [] OTHER -> [ok |-> TRUE, out |-> <<>>, rest |-> Tail(values_iter)]

\* RespDataType::parse: the values of the buffer, or a panic
parse(values) ==
    LET RECURSIVE while(_, _)
        while(bytes, results) ==
            IF bytes = <<>> THEN [ok |-> TRUE, results |-> results]
            ELSE LET one == _parse(bytes)
                 IN  IF ~one.ok THEN [ok |-> FALSE, results |-> <<>>]
                     ELSE while(one.rest, results \o one.out)
    IN  while(values, <<>>)

WRONGTYPE == "WRONGTYPE Operation against a key holding the wrong kind of value"
KeyExists == "Key already exists"

\* ------------------------------------------------------------ KeyResult
Created == [r |-> "Created", m |-> ""]
Updated == [r |-> "Updated", m |-> ""]
KeyError(m) == [r |-> "Error", m |-> m]

\* what wait_until_timeout returns when the Receiver got its tick
Notified == [r |-> "Notified", m |-> ""]

\* --------------------------------------------------------------- store
get_list(map, key) ==
    IF map[key].tag = "list" THEN Some(map[key].list) ELSE None

get_key_value(map, key) ==
    IF map[key].tag = "string"
    THEN Some([value |-> map[key].str, expired_at_millis |-> map[key].exp])
    ELSE None

get_sorted_set(map, key) ==
    IF map[key].tag = "zset" THEN Some(map[key].zset) ELSE None

get_key(map, key) ==
    IF map[key].tag # "none" THEN Some(map[key]) ELSE None

\* a variant of create that reports the error and stores the value all the same
create_over(map, key, value) ==
    IF map[key].tag # "none"
    THEN [res |-> KeyError(KeyExists), map |-> [map EXCEPT ![key] = value]]
    ELSE [res |-> Created, map |-> [map EXCEPT ![key] = value]]

\* Entry::Occupied => Error, Entry::Vacant => insert
create(map, key, value) ==
    IF map[key].tag # "none"
    THEN [res |-> KeyError(KeyExists), map |-> map]
    ELSE [res |-> Created, map |-> [map EXCEPT ![key] = value]]

\* matches!(o.get(), _value): `_value` is an identifier pattern, which binds
\* whatever value the entry holds, so the match succeeds for every value.
matches_value(existing, value) == TRUE

create_or_update_key(map, key, value) ==
    IF map[key].tag # "none"
    THEN IF ~matches_value(map[key], value)
         THEN [res |-> KeyError(WRONGTYPE), map |-> map]
         ELSE [res |-> Updated, map |-> [map EXCEPT ![key] = value]]
    ELSE [res |-> Created, map |-> [map EXCEPT ![key] = value]]

\* ------------------------------------------------------------- commands
NoCmd == [op |-> "none", key |-> "k", values |-> <<>>, count |-> 0, start |-> 0,
          end |-> 0, timeout |-> 0, id |-> "", member |-> "", px |-> None,
          pairs |-> <<>>]
Cmd(op, key) == [NoCmd EXCEPT !.op = op, !.key = key]

\* variants of the two push loops: the values in the opposite order
push_back_reversed(list, values) == list \o Reverse(values)
push_front_in_order(list, values) == values \o list

\* for value in values { list.push_back(value) }
push_back_all(list, values) == list \o values

\* for value in values { list.push_front(value) }
push_front_all(list, values) == Reverse(values) \o list

PushValues(op, list, values) ==
    IF op = "RPUSH" THEN push_back_all(list, values) ELSE push_front_all(list, values)

\* a variant of the pop loop that stops after one element
PopFrontOnce(list, count) ==
    [popped |-> SubSeq(list, 1, Min(1, Len(list))),
     rest |-> SubSeq(list, Min(1, Len(list)) + 1, Len(list))]

\* for _i in 0..count { pop_front() or break }: the popped prefix and the rest
PopFront(list, count) ==
    LET n == Min(Max(count, 0), Len(list))
    IN  [popped |-> SubSeq(list, 1, n), rest |-> SubSeq(list, n + 1, Len(list))]

Bulks(s) == [i \in 1..Len(s) |-> bulk_string(s[i])]

\* the reply built from the popped elements
PopReply(count, popped) ==
    IF count = 1 /\ popped # <<>> THEN bulk_string(popped[1])
    ELSE IF count > 1 THEN Array(Bulks(popped))
    ELSE Null

\* blpop.rs lpop: `lists` is the list view of the keyspace; an entry that is
\* not a list is Vacant there.
lpop(map, key, count) ==
    IF map[key].tag = "list"
    THEN LET p == PopFront(map[key].list, count)
         IN  [reply |-> PopReply(count, p.popped),
              map |-> [map EXCEPT ![key] = ListV(p.rest)]]
    ELSE [reply |-> Null, map |-> map]

\* LRangeCommand::treat_bounds on i64, the result cast to usize
treat_bounds(start, end, list_len) ==
    IF start > list_len THEN None
    ELSE LET start1 == IF start < 0 THEN start + list_len ELSE start
             end1 == IF end < 0 THEN end + list_len ELSE end
             end2 == IF end1 > list_len THEN list_len - 1 ELSE end1
         IN  IF start1 > end2 THEN None
             ELSE Some(<<Max(start1, 0), Max(end2, 0)>>)

\* for i in start..=end { list_value[i] }: positions are 0-based; indexing a
\* VecDeque out of bounds panics.
IndexPanics(list, start, end) == \E i \in start..end : i >= Len(list)

Slice(list, start, end) == [i \in 1..(end - start + 1) |-> list[start + i]]

\* ZRangeCommand::treat_bounds
ztreat_bounds(start, end, set_size) ==
    IF start >= set_size THEN None
    ELSE LET start1 == IF start < 0 THEN start + set_size ELSE start
             end1 == IF end < 0 THEN end + set_size ELSE end
             end2 == IF end1 > set_size THEN set_size - 1 ELSE end1
         IN  IF start1 > end2 THEN None
             ELSE Some(<<Max(start1, 0), Max(end2, 0)>>)

\* ----------------------------------------------------------- BLPOP time
\* (self.timeout * 1000.0) as u64 - elapsed as u64.  A negative difference
\* does not fit u64: a build with overflow checks panics there, a build
\* without them wraps to 2^64 - elapsed milliseconds.
Wrapped == 0 - 1
Underflows(timeout, elapsed) == timeout - elapsed < 0
remaining_timeout(timeout, elapsed) ==
    IF Underflows(timeout, elapsed) THEN Wrapped ELSE timeout - elapsed

\* a variant of the timeout test that ignores the elapsed time
timed_out_at_once(timeout, elapsed) == timeout > 0

\* self.timeout > 0.0 && elapsed >= (self.timeout * 1000.0) as u128
timed_out(timeout, elapsed) == timeout > 0 /\ elapsed >= timeout

\* the sleep of wait_until_timeout: none for a zero duration (timeout 0 blocks
\* indefinitely) and none for a wrapped duration, which is over 10^8 years.
NoTimer == 0 - 1
sleep(duration) ==
    IF duration = 0 \/ duration = Wrapped THEN NoTimer ELSE duration

\* elapsed is compared with the timeout only: the clock of a BLPOP stops one
\* past its timeout
ClockCap(timeout) == timeout + 1

\* ---------------------------------------------------------------- state
VARIABLES
    data,           \* RedisStore.data: key -> value (NoneV when absent)
    dataLock,       \* the task holding the mutex of data, or NoClient
    key_notifiers,  \* RedisStore.key_notifiers: the keys that have a Sender
    pc,             \* where each connection task stands
    cmd,            \* the command a task is executing
    seen,           \* the value a task read from the keyspace
    after,          \* the value a task left in the keyspace
    res,            \* the KeyResult a store call returned to the task
    rx,             \* the task's Receiver: "none", "empty" or "ticked"
    timer,          \* BLPOP: milliseconds left of the sleep, or NoTimer
    clock,          \* BLPOP: now_millis() - start_time, saturating at ClockCap(timeout)
    wake,           \* history: "none", the push seen while the BLPOP ran, "void"
    last,           \* history: the command completed last, with its reply
    rpushLog,       \* history: the values of all RPUSHes on a key, in order
    pure,           \* history: the key was only ever written by RPUSH
    now,            \* utils::now_millis(), as SET and GET read it
    setLog,         \* history: the last SET on a key, with the time it was parsed
    wire,           \* a protocol value, its serialization and what parse makes of it
    conn,           \* the handler of one connection: its place in client_process,
                    \* the commands and the response it holds, and its history
    closed            \* the connections whose client has closed its end

vars == <<data, dataLock, key_notifiers, pc, cmd, seen, after, res,
          rx, timer, clock, wake, last, rpushLog, pure, now, setLog,
          wire, conn, closed>>

\* what the commands on lists, streams and sorted sets leave alone
kv == <<now, setLog, wire, conn, closed>>

\* no value on the wire
NoWire == [value |-> Null, bytes |-> <<>>, parsed |-> None]

\* a connection whose handler waits for its first read
NoConn == [pc |-> "read", command |-> NoCmd, commands |-> <<>>,
           response |-> Null, reads |-> <<>>, log |-> <<>>]

NoRes == [r |-> "none", m |-> ""]

NoLast == [c |-> NoClient, cmd |-> NoCmd, seen |-> NoneV, after |-> NoneV,
           res |-> NoRes, reply |-> Null, wake |-> "none", elapsed |-> 0,
           pure |-> TRUE, log |-> <<>>]

\* the state behind a keyspace: no task runs, no key has a notifier
Fresh ==
    /\ dataLock = NoClient
    /\ key_notifiers = {}
    /\ pc = [c \in Clients |-> "idle"]
    /\ cmd = [c \in Clients |-> NoCmd]
    /\ seen = [c \in Clients |-> NoneV]
    /\ after = [c \in Clients |-> NoneV]
    /\ res = [c \in Clients |-> NoRes]
    /\ rx = [c \in Clients |-> "none"]
    /\ timer = [c \in Clients |-> NoTimer]
    /\ clock = [c \in Clients |-> 0]
    /\ wake = [c \in Clients |-> "none"]
    /\ last = NoLast
    /\ rpushLog = [k \in Keys |-> <<>>]
    /\ now = 0
    /\ setLog = [k \in Keys |-> None]
    /\ wire = NoWire
    /\ conn = NoConn
    /\ closed = {}

Init ==
    /\ data = [k \in Keys |-> NoneV]
    /\ pure = [k \in Keys |-> TRUE]
    /\ Fresh

\* task c stands at `label`, and the reply of the command completed last has
\* been written to its connection
At(c, label) == last.c = NoClient /\ pc[c] = label

InBlpop(c) == pc[c] \in {"bl_lpop", "bl_elapsed", "bl_wait"}

\* ------------------------------------------------------------ histories
\* task c pushed onto key with op: a BLPOP of another task that started on an
\* empty list and whose timeout has not elapsed has now seen that push
WakeOnPush(c, op, key) ==
    [d \in Clients |->
        IF /\ d # c /\ InBlpop(d) /\ cmd[d].key = key /\ wake[d] = "none"
           /\ (cmd[d].timeout = 0 \/ clock[d] < cmd[d].timeout)
        THEN op ELSE wake[d]]

\* task c removed or replaced elements of key: for a running BLPOP of another
\* task the case "no other consumer" is over
WakeOnTake(c, key) ==
    [d \in Clients |->
        IF d # c /\ InBlpop(d) /\ cmd[d].key = key THEN "void" ELSE wake[d]]

\* the command of task c is over: its record becomes `last`, its locals are reset
Return(c, command, s, a, r, reply, w, state) ==
    /\ pc' = [pc EXCEPT ![c] = state]
    /\ last' = [c |-> c, cmd |-> command, seen |-> s, after |-> a, res |-> r,
                reply |-> reply, wake |-> wake[c], elapsed |-> clock[c],
                pure |-> pure'[command.key], log |-> rpushLog'[command.key]]
    /\ cmd' = [cmd EXCEPT ![c] = NoCmd]
    /\ seen' = [seen EXCEPT ![c] = NoneV]
    /\ after' = [after EXCEPT ![c] = NoneV]
    /\ res' = [res EXCEPT ![c] = NoRes]
    /\ timer' = [timer EXCEPT ![c] = NoTimer]
    /\ clock' = [clock EXCEPT ![c] = 0]
    /\ wake' = [w EXCEPT ![c] = "none"]

Complete(c, command, s, a, r, reply, w) ==
    Return(c, command, s, a, r, reply, w, "idle")

\* a panic unwinds the task: its guards are dropped, the connection is closed
Panicked(c, command, s, w) ==
    Return(c, command, s, s, NoRes, Panic, w, "panicked")

Impure(key) ==
    /\ pure' = [pure EXCEPT ![key] = FALSE]
    /\ rpushLog' = [rpushLog EXCEPT ![key] = <<>>]

\* ------------------------------------------------------- notifier registry
\* sender.send(()): every Receiver subscribed to the key gets the tick
notify_key_modified(notifiers, rxs, key) ==
    IF key \in notifiers
    THEN [d \in Clients |->
            IF rxs[d] # "none" /\ cmd[d].key = key THEN "ticked" ELSE rxs[d]]
    ELSE rxs

\* ---------------------------------------------------------- RPUSH / LPUSH
\* rpush.rs and lpush.rs are the same code up to push_back / push_front.
PushFits(key, values, cap) ==
    /\ Len(data[key].list) + Len(values) <= cap
    /\ Len(rpushLog[key]) + Len(values) <= cap

LogPush(op, key, values) ==
    IF op = "RPUSH" /\ pure[key]
    THEN /\ rpushLog' = [rpushLog EXCEPT ![key] = @ \o values]
         /\ pure' = pure
    ELSE Impure(key)

\* match store.get_list(&self.key).await: with Some(list) the guard is kept
\* and the values are pushed; with None the guard is already dropped
PushOf(c, Values, cap) ==
    /\ UNCHANGED kv
    /\ \E op \in {"RPUSH", "LPUSH"}, key \in Keys, values \in Values :
        /\ At(c, "idle")
        /\ dataLock = NoClient
        /\ PushFits(key, values, cap)
        /\ cmd' = [cmd EXCEPT ![c] = [Cmd(op, key) EXCEPT !.values = values]]
        /\ LET got == get_list(data, key)
           IN  IF got # None
               THEN LET list == PushValues(op, got[1], values)
                    IN  /\ data' = [data EXCEPT ![key] = ListV(list)]
                        /\ dataLock' = c
                        /\ seen' = [seen EXCEPT ![c] = data[key]]
                        /\ after' = [after EXCEPT ![c] = ListV(list)]
                        /\ wake' = WakeOnPush(c, op, key)
                        /\ LogPush(op, key, values)
                        /\ pc' = [pc EXCEPT ![c] = "push_notify"]
               ELSE /\ pc' = [pc EXCEPT ![c] = "push_create"]
                    /\ UNCHANGED <<data, dataLock, seen, after, wake, rpushLog, pure>>
        /\ UNCHANGED <<key_notifiers, res, rx, timer, clock, last>>

\* a push of up to MaxPush values
Push(c) == PushOf(c, SeqsUpTo(Vals, MaxPush), MaxLen)

\* a push of one value onto a list shorter than MaxQueue
PushOne(c) == PushOf(c, SeqsUpTo(Vals, 1), MaxQueue)

\* Some arm: notify_key_modified sends the tick under the registry mutex (no
\* await while it is held), then let len = list.len() and the return, which
\* drops the list guard
PushNotify(c) ==
    /\ UNCHANGED kv
    /\ At(c, "push_notify")
    /\ rx' = notify_key_modified(key_notifiers, rx, cmd[c].key)
    /\ dataLock' = NoClient
    /\ UNCHANGED <<rpushLog, pure>>
    /\ Complete(c, cmd[c], seen[c], after[c], NoRes,
                Integer(Len(data[cmd[c].key].list)), wake)
    /\ UNCHANGED <<data, key_notifiers>>

\* None arm: new_list is built and store.create(&self.key, List(new_list)) called
PushCreate(c) ==
    /\ UNCHANGED kv
    /\ At(c, "push_create")
    /\ dataLock = NoClient
    /\ LET key == cmd[c].key
           new_list == PushValues(cmd[c].op, <<>>, cmd[c].values)
           result == create(data, key, ListV(new_list))
       IN  /\ data' = result.map
           /\ LogPush(cmd[c].op, key, cmd[c].values)
           /\ IF result.res.r = "Error"
              THEN /\ Complete(c, cmd[c], data[key], data[key], result.res,
                               error(result.res.m), wake)
              ELSE /\ pc' = [pc EXCEPT ![c] = "created_notify"]
                   /\ seen' = [seen EXCEPT ![c] = data[key]]
                   /\ after' = [after EXCEPT ![c] = ListV(new_list)]
                   /\ res' = [res EXCEPT ![c] = result.res]
                   /\ wake' = WakeOnPush(c, cmd[c].op, key)
                   /\ UNCHANGED <<cmd, timer, clock, last>>
    /\ UNCHANGED <<dataLock, key_notifiers, rx>>

\* None arm, Created: the list guard is closed; notify_key_modified sends the
\* tick and Some(Integer(len)) is returned, len being new_list.len()
CreatedNotify(c) ==
    /\ UNCHANGED kv
    /\ At(c, "created_notify")
    /\ rx' = notify_key_modified(key_notifiers, rx, cmd[c].key)
    /\ UNCHANGED <<rpushLog, pure>>
    /\ Complete(c, cmd[c], seen[c], after[c], res[c],
                Integer(Len(cmd[c].values)), wake)
    /\ UNCHANGED <<data, dataLock, key_notifiers>>

\* ------------------------------------------------------------------ BLPOP
\* let start_time = utils::now_millis()
BLPop(c) ==
    /\ UNCHANGED kv
    /\ \E key \in Keys, timeout \in 0..MaxTimeout :
        /\ At(c, "idle")
        /\ cmd' = [cmd EXCEPT ![c] = [Cmd("BLPOP", key) EXCEPT !.timeout = timeout]]
        /\ clock' = [clock EXCEPT ![c] = 0]
        /\ wake' = [wake EXCEPT ![c] =
                        IF data[key].list = <<>> /\ data[key].tag \in {"none", "list"}
                        THEN "none" ELSE "void"]
        /\ pc' = [pc EXCEPT ![c] = "bl_lpop"]
        /\ UNCHANGED <<data, dataLock, key_notifiers, seen, after, res,
                       rx, timer, last, rpushLog, pure>>

\* a variant of the first step of BLPOP that keeps the guard of the lists
\* when it finds nothing to pop, and so waits with the keyspace locked
BlpopTryPopGuarded(c) ==
    /\ UNCHANGED kv
    /\ At(c, "bl_lpop")
    /\ dataLock = NoClient
    /\ LET key == cmd[c].key
           lpop_result == lpop(data, key, 1)
       IN  IF lpop_result.reply # Null
           THEN /\ data' = lpop_result.map
                /\ Impure(key)
                /\ Complete(c, cmd[c], data[key], lpop_result.map[key], NoRes,
                            Array(<<bulk_string(key), lpop_result.reply>>),
                            WakeOnTake(c, key))
                /\ UNCHANGED dataLock
           ELSE /\ pc' = [pc EXCEPT ![c] = "bl_elapsed"]
                /\ dataLock' = c
                /\ UNCHANGED <<data, cmd, seen, after, res, timer, clock,
                               wake, last, rpushLog, pure>>
    /\ UNCHANGED <<key_notifiers, rx>>

\* lpop(&store.lists, key, 1).await: the lock is taken, one element popped if
\* there is one, and the lock released when lpop returns
BlpopTryPop(c) ==
    /\ UNCHANGED kv
    /\ At(c, "bl_lpop")
    /\ dataLock = NoClient
    /\ LET key == cmd[c].key
           lpop_result == lpop(data, key, 1)
       IN  IF lpop_result.reply # Null
           THEN /\ data' = lpop_result.map
                /\ Impure(key)
                /\ Complete(c, cmd[c], data[key], lpop_result.map[key], NoRes,
                            Array(<<bulk_string(key), lpop_result.reply>>),
                            WakeOnTake(c, key))
           ELSE /\ pc' = [pc EXCEPT ![c] = "bl_elapsed"]
                /\ UNCHANGED <<data, cmd, seen, after, res, timer, clock,
                               wake, last, rpushLog, pure>>
    /\ UNCHANGED <<dataLock, key_notifiers, rx>>

\* let elapsed = now_millis() - start_time; the timeout test; remaining_timeout;
\* wait_until_timeout: subscribe_to_key (entry(key).or_insert_with(channel)
\* .subscribe() under the registry mutex), then the select! of the Receiver
\* against the sleep starts
BlpopWait(c) ==
    /\ UNCHANGED kv
    /\ At(c, "bl_elapsed")
    /\ LET timeout == cmd[c].timeout
           elapsed == clock[c]
       IN  IF timed_out(timeout, elapsed)
           THEN /\ UNCHANGED <<rpushLog, pure, key_notifiers, rx>>
                /\ Complete(c, cmd[c], data[cmd[c].key], data[cmd[c].key], NoRes,
                            NullArray, wake)
           ELSE \/ /\ key_notifiers' = key_notifiers \cup {cmd[c].key}
                   /\ rx' = [rx EXCEPT ![c] = "empty"]
                   /\ timer' = [timer EXCEPT ![c] =
                                    sleep(remaining_timeout(timeout, elapsed))]
                   /\ pc' = [pc EXCEPT ![c] = "bl_wait"]
                   /\ UNCHANGED <<cmd, seen, after, res, clock, wake, last,
                                  rpushLog, pure>>
                \/ /\ Underflows(timeout, elapsed)
                   /\ UNCHANGED <<rpushLog, pure, key_notifiers, rx>>
                   /\ Panicked(c, cmd[c], data[cmd[c].key], wake)
    /\ UNCHANGED <<data, dataLock>>

\* select!: receiver.recv() completes, wait_until_timeout returns a result
\* that is not Timeout and the loop runs again
WaitNotified(c) ==
    /\ UNCHANGED kv
    /\ At(c, "bl_wait")
    /\ rx[c] = "ticked"
    /\ rx' = [rx EXCEPT ![c] = "none"]
    /\ timer' = [timer EXCEPT ![c] = NoTimer]
    /\ res' = [res EXCEPT ![c] = Notified]
    /\ pc' = [pc EXCEPT ![c] = "bl_lpop"]
    /\ UNCHANGED <<data, dataLock, key_notifiers, cmd, seen, after,
                   clock, wake, last, rpushLog, pure>>

\* select!: the sleep completes, WaitResult::Timeout => NullArray
WaitTimeout(c) ==
    /\ UNCHANGED kv
    /\ At(c, "bl_wait")
    /\ timer[c] = 0
    /\ rx' = [rx EXCEPT ![c] = "none"]
    /\ UNCHANGED <<rpushLog, pure>>
    /\ Complete(c, cmd[c], data[cmd[c].key], data[cmd[c].key], NoRes, NullArray, wake)
    /\ UNCHANGED <<data, dataLock, key_notifiers>>

\* ------------------------------------------------------------------- XADD
\* store.get_key: a stream is cloned, an absent key gives RedisStream::new(),
\* any other value the WRONGTYPE error; the guard is dropped
XAdd(c) ==
    /\ UNCHANGED kv
    /\ \E key \in Keys, id \in EntryIds :
        /\ At(c, "idle")
        /\ dataLock = NoClient
        /\ LET command == [Cmd("XADD", key) EXCEPT !.id = id]
               got == get_key(data, key)
           IN  IF got # None /\ got[1].tag # "stream"
               THEN /\ UNCHANGED <<rpushLog, pure>>
                    /\ Complete(c, command, data[key], data[key], NoRes,
                                error(WRONGTYPE), wake)
               ELSE /\ cmd' = [cmd EXCEPT ![c] = command]
                    /\ seen' = [seen EXCEPT ![c] = data[key]]
                    /\ pc' = [pc EXCEPT ![c] = "xadd_store"]
                    /\ UNCHANGED <<after, res, timer, clock, wake, last,
                                   rpushLog, pure>>
        /\ UNCHANGED <<data, dataLock, key_notifiers, rx>>

\* stream.add_entry; store.create_or_update_key(key, Stream(stream)), its
\* result is dropped; Some(bulk_string(entry_key))
XAddStore(c) ==
    /\ UNCHANGED kv
    /\ At(c, "xadd_store")
    /\ dataLock = NoClient
    /\ LET key == cmd[c].key
           stream == seen[c].stream \cup {cmd[c].id}
           result == create_or_update_key(data, key, StreamV(stream))
       IN  /\ data' = result.map
           /\ Impure(key)
           /\ Complete(c, cmd[c], data[key], result.map[key], result.res,
                       bulk_string(cmd[c].id), WakeOnTake(c, key))
    /\ UNCHANGED <<dataLock, key_notifiers, rx>>

\* ------------------------------------------------------------------- LPOP
LPop(c) ==
    /\ UNCHANGED kv
    /\ \E key \in Keys, count \in 1..MaxCount :
        /\ At(c, "idle")
        /\ dataLock = NoClient
        /\ LET command == [Cmd("LPOP", key) EXCEPT !.count = count]
               got == get_list(data, key)
           IN  IF got # None
               THEN LET p == PopFront(got[1], count)
                    IN  /\ data' = [data EXCEPT ![key] = ListV(p.rest)]
                        /\ Impure(key)
                        /\ Complete(c, command, data[key], ListV(p.rest), NoRes,
                                    PopReply(count, p.popped),
                                    IF p.popped # <<>> THEN WakeOnTake(c, key) ELSE wake)
               ELSE /\ UNCHANGED <<data, rpushLog, pure>>
                    /\ Complete(c, command, data[key], data[key], NoRes, Null, wake)
        /\ UNCHANGED <<dataLock, key_notifiers, rx>>

\* ----------------------------------------------------------------- LRANGE
LRangeReply(list, start, end) ==
    LET bounds == treat_bounds(start, end, Len(list))
    IN  IF bounds = None THEN Array(<<>>)
        ELSE IF IndexPanics(list, bounds[1][1], bounds[1][2]) THEN Panic
        ELSE Array(Bulks(Slice(list, bounds[1][1], bounds[1][2])))

LRangeOver(c, Idx) ==
    /\ UNCHANGED kv
    /\ \E key \in Keys, start \in Idx, end \in Idx :
        /\ At(c, "idle")
        /\ dataLock = NoClient
        /\ LET command == [Cmd("LRANGE", key) EXCEPT !.start = start, !.end = end]
               got == get_list(data, key)
               reply == IF got # None THEN LRangeReply(got[1], start, end)
                        ELSE Array(<<>>)
           IN  /\ UNCHANGED <<rpushLog, pure>>
               /\ IF reply = Panic
                  THEN Panicked(c, command, data[key], wake)
                  ELSE Complete(c, command, data[key], data[key], NoRes, reply, wake)
        /\ UNCHANGED <<data, dataLock, key_notifiers, rx>>

\* LRANGE beside the other commands: the indexes next to both ends
LRange(c) == LRangeOver(c, {0 - 1, 0, 1})

\* LRANGE alone: every index up to MaxIdx
LRangeAll(c) == LRangeOver(c, (0 - MaxIdx)..MaxIdx)

\* ---------------------------------------------- GET, ZCARD, ZSCORE, ZRANGE
\* a variant of the expiry test that lets the value live one millisecond more
is_expired_after(val, t) ==
    val.expired_at_millis # NoExpiry /\ val.expired_at_millis < t

\* RedisKeyValue::is_expired at time t
is_expired(val, t) ==
    val.expired_at_millis # NoExpiry /\ val.expired_at_millis <= t

\* Some(val) if !val.is_expired() => bulk_string(&val.value), _ => Null
GetReply(map, key, t) ==
    LET got == get_key_value(map, key)
    IN  IF got # None /\ ~is_expired(got[1], t)
        THEN bulk_string(got[1].value) ELSE Null

ZCardReply(map, key) ==
    LET got == get_sorted_set(map, key)
    IN  IF got # None THEN Integer(len(got[1])) ELSE Integer(0)

ZScoreReply(map, key, member) ==
    LET got == get_sorted_set(map, key)
    IN  IF got = None THEN Null
        ELSE LET value == get_score_by_member(got[1], member)
             IN  IF value # None THEN bulk_string(f64_to_string(value[1])) ELSE Null

ZRangeReply(map, key, start, end) ==
    LET got == get_sorted_set(map, key)
    IN  IF got = None THEN Array(<<>>)
        ELSE LET bounds == ztreat_bounds(start, end, len(got[1]))
             IN  IF bounds = None THEN Array(<<>>)
                 ELSE LET r == range(got[1], bounds[1][1], bounds[1][2])
                      IN  Array([i \in 1..Len(r) |-> bulk_string(r[i].member)])

\* the commands that only read the keyspace under its lock
Read(c) ==
    /\ UNCHANGED kv
    /\ \E key \in Keys, member \in Members,
       start \in {0 - 1, 0}, end \in {0 - 1, 0} :
        \E command \in {Cmd("GET", key), Cmd("ZCARD", key),
                        [Cmd("ZSCORE", key) EXCEPT !.member = member],
                        [Cmd("ZRANGE", key) EXCEPT !.start = start, !.end = end]} :
            /\ At(c, "idle")
            /\ dataLock = NoClient
            /\ UNCHANGED <<rpushLog, pure>>
            /\ Complete(c, command, data[key], data[key], NoRes,
                        CASE command.op = "GET" -> GetReply(data, key, now)
                          [] command.op = "ZCARD" -> ZCardReply(data, key)
                          [] command.op = "ZSCORE" -> ZScoreReply(data, key, member)
                          [] OTHER -> ZRangeReply(data, key, start, end),
                        wake)
            /\ UNCHANGED <<data, dataLock, key_notifiers, rx>>

\* ---------------------------------------------- ZADD, ZREM, ZRANK, ZRANGE
\* SortedAddOptions::new
SortedAddOptions ==
    [xx |-> FALSE, nx |-> FALSE, lt |-> FALSE, gt |-> FALSE, ch |-> FALSE,
     incr |-> FALSE]

\* str::to_ascii_uppercase on the words of the model
to_ascii_uppercase(word) ==
    CASE word = "nx" -> "NX"
      [] word = "xx" -> "XX"
      [] OTHER -> word

\* SortedAddOptions::parse: while the next argument is the name of an option
\* the option is set and the argument consumed; args holds the words between
\* the key and the first score
RECURSIVE SortedAddOptions_parse(_, _)
SortedAddOptions_parse(args, options) ==
    IF args = <<>> THEN options
    ELSE LET option_str == to_ascii_uppercase(Head(args))
         IN  CASE option_str = "XX" -> SortedAddOptions_parse(Tail(args), [options EXCEPT !.xx = TRUE])
               [] option_str = "NX" -> SortedAddOptions_parse(Tail(args), [options EXCEPT !.nx = TRUE])
               [] option_str = "LT" -> SortedAddOptions_parse(Tail(args), [options EXCEPT !.lt = TRUE])
               [] option_str = "GT" -> SortedAddOptions_parse(Tail(args), [options EXCEPT !.gt = TRUE])
               [] option_str = "CH" -> SortedAddOptions_parse(Tail(args), [options EXCEPT !.ch = TRUE])
               [] option_str = "INCR" -> SortedAddOptions_parse(Tail(args), [options EXCEPT !.incr = TRUE])
               [] OTHER -> options

\* ZAddCommand::parse: the options, then SortedValue::parse, which is None
\* when no pair follows
ZAddCommand_parse(key, args, values) ==
    LET options == SortedAddOptions_parse(args, SortedAddOptions)
    IN  IF values = <<>> THEN [ok |-> FALSE, msg |-> "cant parse values"]
        ELSE [ok |-> TRUE, key |-> key, options |-> options, values |-> values]

\* one pair of a ZADD: NX leaves a member of the set alone, XX a member that
\* is not in it; GT and LT let a member of the set only rise or only fall;
\* with INCR the score is added to the one the member has (0 when it has none)
zadd_one(options, ss, value) ==
    LET existing == map_get(ss.map, value.member)
        current == IF existing # None THEN existing[1].score ELSE 0
        score == IF options.incr THEN current + value.score ELSE value.score
        skip == IF existing = None THEN options.xx
                ELSE \/ options.nx
                     \/ options.gt /\ ~(score > current)
                     \/ options.lt /\ ~(score < current)
        done == replace(ss, SortedValue(value.member, score))
    IN  IF skip THEN [added |-> 0, changed |-> 0, ss |-> ss, score |-> None]
        ELSE [added |-> done.count,
              changed |-> IF existing # None /\ score # current THEN 1 ELSE 0,
              ss |-> done.ss, score |-> Some(score)]

\* the pairs of a ZADD in the order given
RECURSIVE zadd_all(_, _, _)
zadd_all(options, ss, values) ==
    IF values = <<>> THEN [added |-> 0, changed |-> 0, ss |-> ss, score |-> None]
    ELSE LET first == zadd_one(options, ss, Head(values))
             rest == zadd_all(options, first.ss, Tail(values))
         IN  [added |-> first.added + rest.added,
              changed |-> first.changed + rest.changed,
              ss |-> rest.ss,
              score |-> IF Tail(values) = <<>> THEN first.score ELSE rest.score]

\* the reply of a ZADD: the new score with INCR, added + changed with CH, added
ZAddReply(options, result) ==
    IF options.incr
    THEN IF result.score # None THEN bulk_string(f64_to_string(result.score[1]))
         ELSE Null
    ELSE IF options.ch THEN Integer(result.added + result.changed)
    ELSE Integer(result.added)

\* a request that does not parse is answered with the error and nothing is
\* executed; a parsed ZADD runs against the sorted set of the key
ZAddOf(c, Args, Values) ==
    \E key \in Keys, args \in Args, values \in Values :
        /\ At(c, "idle")
        /\ dataLock = NoClient
        /\ LET command == [Cmd("ZADD", key) EXCEPT !.pairs = values, !.values = args]
               parsed == ZAddCommand_parse(key, args, values)
           IN  IF ~parsed.ok
               THEN /\ UNCHANGED <<data, rpushLog, pure>>
                    /\ Complete(c, command, data[key], data[key], NoRes,
                                error(parsed.msg), wake)
               ELSE IF data[key].tag \notin {"none", "zset"}
               THEN /\ UNCHANGED <<data, rpushLog, pure>>
                    /\ Complete(c, command, data[key], data[key], NoRes,
                                error(WRONGTYPE), wake)
               ELSE LET result == zadd_all(parsed.options, data[key].zset, values)
                    IN  /\ \A v \in result.ss.map : v.score \in Scores
                        /\ data' = [data EXCEPT ![key] = ZSetV(result.ss)]
                        /\ Impure(key)
                        /\ Complete(c, command, data[key], ZSetV(result.ss), NoRes,
                                    ZAddReply(parsed.options, result),
                                    WakeOnTake(c, key))
        /\ UNCHANGED <<dataLock, key_notifiers, rx, kv>>

\* ZADD without flags, with up to MaxPairs pairs
ZAdd(c) == ZAddOf(c, {<<>>}, SeqsUpTo(SortedValues, MaxPairs))

\* ZADD with up to MaxFlags flags and at most one pair
ZAddFlags(c) ==
    ZAddOf(c, {<<>>} \cup SeqsUpTo(FlagWords, MaxFlags),
           {<<>>} \cup SeqsUpTo(SortedValues, 1))

\* ZRemCommand::execute: remove_by_member on the sorted set of the key
ZRem(c) ==
    \E key \in Keys, member \in Members :
        /\ At(c, "idle")
        /\ dataLock = NoClient
        /\ LET command == [Cmd("ZREM", key) EXCEPT !.member = member]
               got == get_sorted_set(data, key)
           IN  IF got # None
               THEN LET removed == remove_by_member(got[1], member)
                    IN  /\ data' = [data EXCEPT ![key] = ZSetV(removed.ss)]
                        /\ Impure(key)
                        /\ Complete(c, command, data[key], ZSetV(removed.ss), NoRes,
                                    Integer(removed.count), wake)
               ELSE /\ UNCHANGED <<data, rpushLog, pure>>
                    /\ Complete(c, command, data[key], data[key], NoRes,
                                Integer(0), wake)
        /\ UNCHANGED <<dataLock, key_notifiers, rx, kv>>

\* ZRankCommand::execute
ZRankReply(map, key, member) ==
    LET got == get_sorted_set(map, key)
    IN  IF got = None THEN Null
        ELSE LET val == get_rank_by_member(got[1], member)
             IN  IF val # None THEN Integer(val[1]) ELSE Null

ZRank(c) ==
    \E key \in Keys, member \in Members :
        /\ At(c, "idle")
        /\ dataLock = NoClient
        /\ UNCHANGED <<rpushLog, pure, kv>>
        /\ Complete(c, [Cmd("ZRANK", key) EXCEPT !.member = member],
                    data[key], data[key], NoRes, ZRankReply(data, key, member), wake)
        /\ UNCHANGED <<data, dataLock, key_notifiers, rx>>

\* ZRANGE alone: every index up to MaxIdx
ZRangeAll(c) ==
    \E key \in Keys, start \in (0 - MaxIdx)..MaxIdx, end \in (0 - MaxIdx)..MaxIdx :
        /\ At(c, "idle")
        /\ dataLock = NoClient
        /\ UNCHANGED <<rpushLog, pure, kv>>
        /\ Complete(c, [Cmd("ZRANGE", key) EXCEPT !.start = start, !.end = end],
                    data[key], data[key], NoRes,
                    ZRangeReply(data, key, start, end), wake)
        /\ UNCHANGED <<data, dataLock, key_notifiers, rx>>

\* -------------------------------------------------------------- SET, GET
\* RedisKeyValue::parse at time t: "PX" ttl sets expired_at_millis to
\* now_millis() + ttl; without PX it stays None
RedisKeyValue_parse(value, px, t) ==
    [value |-> value,
     expired_at_millis |-> IF px # None THEN t + px[1] ELSE NoExpiry]

\* a variant of the insert that keeps what a key already holds
insert_if_vacant(map, key, val) ==
    IF map[key].tag = "none"
    THEN [map EXCEPT ![key] = KeyValueV(val.value, val.expired_at_millis)]
    ELSE map

\* store.pairs.lock().await.insert(key, value): the entry of the key is
\* replaced.  The map SET writes is the keyspace GET reads.
insert(map, key, val) ==
    [map EXCEPT ![key] = KeyValueV(val.value, val.expired_at_millis)]

Set(c) ==
    \E key \in Keys, value \in Vals,
       px \in {None} \cup {Some(p) : p \in 0..MaxPx} :
        /\ At(c, "idle")
        /\ dataLock = NoClient
        /\ LET command == [Cmd("SET", key) EXCEPT !.values = <<value>>, !.px = px]
               map == insert(data, key, RedisKeyValue_parse(value, px, now))
           IN  /\ data' = map
               /\ setLog' = [setLog EXCEPT
                                ![key] = Some([value |-> value, px |-> px, at |-> now])]
               /\ Impure(key)
               /\ Complete(c, command, data[key], map[key], NoRes, ok,
                           WakeOnTake(c, key))
        /\ UNCHANGED <<dataLock, key_notifiers, rx, now, wire, conn, closed>>

Get(c) ==
    \E key \in Keys :
        /\ At(c, "idle")
        /\ dataLock = NoClient
        /\ UNCHANGED <<rpushLog, pure, kv>>
        /\ Complete(c, Cmd("GET", key), data[key], data[key], NoRes,
                    GetReply(data, key, now), wake)
        /\ UNCHANGED <<data, dataLock, key_notifiers, rx>>

\* one millisecond passes between two commands
Elapse ==
    /\ last.c = NoClient
    /\ now < MaxNow
    /\ now' = now + 1
    /\ UNCHANGED <<data, dataLock, key_notifiers, pc, cmd, seen, after,
                   res, rx, timer, clock, wake, last, rpushLog, pure, setLog,
                   wire, conn, closed>>

\* ------------------------------------------------------------------- LLEN
\* LLenCommand::execute: lists.entry(key).or_insert_with(VecDeque::new), then
\* the length.  `lists` is the list view of the keyspace: a key that holds no
\* list is vacant there, and the empty list made for an absent key is a value
\* of the keyspace from then on.  For a key that holds a value of another
\* type the reply is 0 and the value is left as it is.
LLen(c) ==
    \E key \in Keys :
        /\ At(c, "idle")
        /\ dataLock = NoClient
        /\ UNCHANGED <<rpushLog, pure, kv>>
        /\ LET map == IF data[key].tag = "none"
                      THEN [data EXCEPT ![key] = ListV(<<>>)]
                      ELSE data
           IN  /\ data' = map
               /\ Complete(c, Cmd("LLEN", key), data[key], map[key], NoRes,
                           Integer(Len(map[key].list)), wake)
        /\ UNCHANGED <<dataLock, key_notifiers, rx>>

\* ------------------------------------------------------------------- TYPE
\* a variant of to_type_resp that has no name for a sorted set
to_type_resp_unnamed(value) ==
    simple_string(CASE value.tag = "string" -> "string"
                    [] value.tag = "list" -> "list"
                    [] value.tag = "stream" -> "stream"
                    [] OTHER -> "none")

\* to_type_resp: the name of the variant; the name of a stream is the one
\* the protocol gives it
to_type_resp(value) ==
    simple_string(CASE value.tag = "string" -> "string"
                    [] value.tag = "list" -> "list"
                    [] value.tag = "zset" -> "zset"
                    [] value.tag = "stream" -> "stream"
                    [] OTHER -> "none")

\* KeyTypeCommand::execute
Type(c) ==
    \E key \in Keys :
        /\ At(c, "idle")
        /\ dataLock = NoClient
        /\ UNCHANGED <<rpushLog, pure, kv>>
        /\ LET got == get_key(data, key)
           IN  Complete(c, Cmd("TYPE", key), data[key], data[key], NoRes,
                        IF got # None THEN to_type_resp(got[1])
                        ELSE to_type_resp(NoneV),
                        wake)
        /\ UNCHANGED <<data, dataLock, key_notifiers, rx>>

\* --------------------------------------------------------------- response
\* client_process: client.connection.write_response(&response).await, then the
\* next command is taken; a task that panicked writes nothing and is closed
Respond ==
    /\ UNCHANGED kv
    /\ last.c # NoClient
    /\ last' = NoLast
    /\ UNCHANGED <<data, dataLock, key_notifiers, pc, cmd, seen, after,
                   res, rx, timer, clock, wake, rpushLog, pure>>

\* ------------------------------------------------------------------- time
\* one millisecond passes
Tick ==
    /\ UNCHANGED kv
    /\ last.c = NoClient
    /\ clock' = [c \in Clients |->
                    IF InBlpop(c) THEN Min(clock[c] + 1, ClockCap(cmd[c].timeout))
                    ELSE clock[c]]
    /\ timer' = [c \in Clients |->
                    IF pc[c] = "bl_wait" /\ timer[c] > 0 THEN timer[c] - 1 ELSE timer[c]]
    /\ UNCHANGED <<data, dataLock, key_notifiers, pc, cmd, seen, after,
                   res, rx, wake, last, rpushLog, pure>>

\* ---------------------------------------------------------- specifications
\* the steps of a running list command
ListStep(c) ==
    \/ PushNotify(c)
    \/ PushCreate(c)
    \/ CreatedNotify(c)
    \/ BlpopTryPop(c)
    \/ BlpopWait(c)
    \/ WaitNotified(c)
    \/ WaitTimeout(c)

TaskStep(c) == ListStep(c) \/ XAddStore(c)

\* the steps that start a command
Issue(c) ==
    \/ Push(c)
    \/ BLPop(c)
    \/ XAdd(c)
    \/ LPop(c)
    \/ LRange(c)
    \/ Read(c)

Step(c) == Issue(c) \/ TaskStep(c)

\* Every connection runs any command at any time.
Next == (\E c \in Clients : Step(c)) \/ Respond \/ Tick

Spec == Init /\ [][Next]_vars

\* The commands that write and read lists, one command at a time: a task
\* steps only while every other task is between two commands or closed.  XADD
\* is there to put a value that is not a list at a key.
Quiet(c) == \A d \in Clients \ {c} : pc[d] \in {"idle", "panicked"}

SerialStep(c) ==
    \/ Quiet(c) /\ Push(c)
    \/ Quiet(c) /\ PushNotify(c)
    \/ Quiet(c) /\ PushCreate(c)
    \/ Quiet(c) /\ CreatedNotify(c)
    \/ Quiet(c) /\ LPop(c)
    \/ Quiet(c) /\ LRange(c)
    \/ Quiet(c) /\ XAdd(c)
    \/ Quiet(c) /\ XAddStore(c)

SerialNext == (\E c \in Clients : SerialStep(c)) \/ Respond

SerialSpec == Init /\ [][SerialNext]_vars

\* The list commands alone, under fair scheduling: a task that can step does
\* step (the tokio mutexes are FIFO), replies get written and time passes.
\* Whether a client sends another command is up to the client.  Pushes carry
\* one value here and lists hold up to MaxQueue values.
ListIssue(c) ==
    \/ PushOne(c)
    \/ BLPop(c)
    \/ LPop(c)

ListNext == (\E c \in Clients : ListIssue(c) \/ ListStep(c)) \/ Respond \/ Tick

FairSpec ==
    /\ Init
    /\ [][ListNext]_vars
    /\ \A c \in Clients : SF_vars(ListStep(c))
    /\ SF_vars(Respond)
    /\ SF_vars(Tick)

\* LRANGE alone, on every list of up to MaxLen values, whatever commands made it
RangeInit ==
    /\ Fresh
    /\ pure = [k \in Keys |-> FALSE]
    /\ data \in [Keys -> {NoneV} \cup {ListV(l) : l \in {<<>>} \cup SeqsUpTo(Vals, MaxLen)}]

RangeNext == (\E c \in Clients : LRangeAll(c)) \/ Respond

RangeSpec == RangeInit /\ [][RangeNext]_vars

\* ------------------------------------------------------------------ BLPOP
\* the BLPOP of task c has returned [key, element], element being the head of
\* the list it popped from
\* the sorted-set commands alone
ZStep(c) ==
    \/ ZAdd(c)
    \/ ZRem(c)
    \/ ZRank(c)
    \/ Read(c)
    \/ ZRangeAll(c)

ZNext == (\E c \in Clients : ZStep(c)) \/ Respond

ZSpec == Init /\ [][ZNext]_vars

\* ------------------------------------------------------------------ codec
\* the contents of the strings, and the bytes of the bulk strings
Texts == {<<>>, <<"a">>, <<"O", "K">>}
Blobs == Texts \cup {<<"\r">>, <<"\n">>, <<"a", "\r", "\n", "b">>}

Scalars ==
    {simple_string(s) : s \in Texts} \cup {error(s) : s \in Texts}
        \cup {Integer(n) : n \in {0 - 12, 0, 7, 120}}
        \cup {bulk_string(s) : s \in Blobs} \cup {Null, NullArray}

Flat == {Array(<<>>)} \cup {Array(<<x>>) : x \in Scalars}
            \cup {Array(<<x, y>>) : x \in Scalars, y \in Scalars}

ProtocolValues ==
    Scalars \cup Flat \cup {Array(<<x>>) : x \in Flat}
        \cup {Array(<<Integer(7), x>>) : x \in Flat}

CodecInit ==
    /\ data = [k \in Keys |-> NoneV]
    /\ pure = [k \in Keys |-> TRUE]
    /\ dataLock = NoClient
    /\ key_notifiers = {}
    /\ pc = [c \in Clients |-> "idle"]
    /\ cmd = [c \in Clients |-> NoCmd]
    /\ seen = [c \in Clients |-> NoneV]
    /\ after = [c \in Clients |-> NoneV]
    /\ res = [c \in Clients |-> NoRes]
    /\ rx = [c \in Clients |-> "none"]
    /\ timer = [c \in Clients |-> NoTimer]
    /\ clock = [c \in Clients |-> 0]
    /\ wake = [c \in Clients |-> "none"]
    /\ last = NoLast
    /\ rpushLog = [k \in Keys |-> <<>>]
    /\ now = 0
    /\ setLog = [k \in Keys |-> None]
    /\ conn = NoConn
    /\ closed = {}
    /\ wire \in {[NoWire EXCEPT !.value = v] : v \in ProtocolValues}

\* a value is serialized and the bytes are parsed
RoundTrip ==
    /\ wire.parsed = None
    /\ wire' = [wire EXCEPT !.bytes = serialize(wire.value),
                            !.parsed = Some(parse(serialize(wire.value)))]
    /\ UNCHANGED <<data, dataLock, key_notifiers, pc, cmd, seen, after, res,
                   rx, timer, clock, wake, last, rpushLog, pure, now, setLog,
                   conn, closed>>

CodecSpec == CodecInit /\ [][RoundTrip]_vars

\* ------------------------------------------------------------- connection
\* the store and the tasks that run its commands
tasks == <<data, dataLock, key_notifiers, pc, cmd, seen, after, res,
           rx, timer, clock, wake, last, rpushLog, pure, now, setLog>>

PING == <<"P", "I", "N", "G">>
ECHO == <<"E", "C", "H", "O">>

\* RedisCommand::build: the commands of the values of one read, or the
\* message of the first value that is no command.  The requests of the model
\* name PING and ECHO; the arms of the other commands are left out.
\* to_string is RespDataType::to_string of an argument.
build(values) ==
    LET Err(msg) == [ok |-> FALSE, msg |-> msg, commands |-> <<>>]
        to_string(value) ==
            CASE value.t = "simple" -> Some(value.s)
              [] value.t = "error" -> Some(value.m)
              [] value.t = "int" -> Some(format(value.n))
              [] value.t = "bulk" -> Some(value.s)
              [] OTHER -> None
        name(word) == [i \in DOMAIN word |-> to_ascii_uppercase(word[i])]
        RECURSIVE for(_, _)
        for(rest, commands) ==
            IF rest = <<>>
            THEN [ok |-> TRUE, msg |-> "", commands |-> commands]
            ELSE LET value == Head(rest)
                 IN  CASE value.t = "array" ->
                            IF value.a = <<>> THEN for(Tail(rest), commands)
                            ELSE IF to_string(value.a[1]) = None
                            THEN Err("cant get the command name")
                            ELSE IF name(to_string(value.a[1])[1]) = PING
                            THEN for(Tail(rest), Append(commands, Cmd("PING", "k")))
                            ELSE IF name(to_string(value.a[1])[1]) = ECHO
                            THEN IF Len(value.a) < 2 \/ to_string(value.a[2]) = None
                                 THEN Err("cant convert to string")
                                 ELSE for(Tail(rest),
                                          Append(commands,
                                                 [Cmd("ECHO", "k") EXCEPT
                                                     !.values = to_string(value.a[2])]))
                            ELSE Err("command not found")
                       [] value.t \in {"bulk", "simple"} /\ name(value.s) = PING ->
                            for(Tail(rest), Append(commands, Cmd("PING", "k")))
                       [] OTHER -> Err("value type not correct")
    IN  for(values, <<>>)

\* RedisCommand::parse: the commands of the bytes of one read, the message of
\* build, or the panic of the codec
RedisCommand_parse(values) ==
    LET received_values == parse(values)
    IN  IF ~received_values.ok
        THEN [panic |-> TRUE, ok |-> FALSE, msg |-> "", commands |-> <<>>]
        ELSE [panic |-> FALSE] @@ build(received_values.results)

\* PingCommand::execute and EchoCommand::execute
execute(command) ==
    IF command.op = "PING" THEN simple_string(<<"P", "O", "N", "G">>)
    ELSE bulk_string(command.values[1])

\* the requests a client sends, as it serializes them
Ping == serialize(Array(<<bulk_string(PING)>>))
EchoA == serialize(Array(<<bulk_string(ECHO), bulk_string(<<"a">>)>>))
EchoNothing == serialize(Array(<<bulk_string(ECHO)>>))
Requests == {Ping, EchoA, EchoNothing}

\* what one read returns: requests one after another, the two parts of a
\* request cut in two, bytes that are no protocol value
Batches ==
    Requests \cup {x \o y : x \in Requests, y \in Requests}
        \cup {x \o EchoNothing \o y : x \in {Ping, EchoA}, y \in {Ping, EchoA}}
Parts ==
    UNION {{SubSeq(EchoA, 1, i), SubSeq(EchoA, i + 1, Len(EchoA))} :
              i \in 1..(Len(EchoA) - 1)}
Malformed ==
    {<<"*", "x">> \o SYMBOL_END_COMMAND,
     <<"$", "x">> \o SYMBOL_END_COMMAND,
     <<"*", "2">> \o SYMBOL_END_COMMAND \o serialize(bulk_string(PING))}
Chunks == Batches \cup Parts \cup Malformed

\* an event of the history of the connection
Event(e, command, value, fine) ==
    [e |-> e, command |-> command, value |-> value, ok |-> fine]

\* a variant of for_next that takes the commands from the back
for_next_back(received_commands) ==
    [command |-> received_commands[Len(received_commands)],
     rest |-> SubSeq(received_commands, 1, Len(received_commands) - 1)]

\* for command in received_commands: the next command and those left
for_next(received_commands) ==
    [command |-> Head(received_commands), rest |-> Tail(received_commands)]

\* read_request returns the bytes of one read, which are parsed: a panic ends
\* the task, an Err is to be written as an error, the commands are to be run
ReadRequest ==
    /\ conn.pc = "read"
    /\ Len(conn.reads) < MaxReads
    /\ \E request \in Chunks :
          LET parsed_commands == RedisCommand_parse(request)
          IN  conn' = [conn EXCEPT
                         !.reads = Append(@, request),
                         !.command = NoCmd,
                         !.commands = parsed_commands.commands,
                         !.response = IF parsed_commands.panic \/ parsed_commands.ok
                                      THEN Null
                                      ELSE error(parsed_commands.msg),
                         !.pc = IF parsed_commands.panic THEN "panicked"
                                ELSE IF ~parsed_commands.ok THEN "write"
                                ELSE IF parsed_commands.commands = <<>> THEN "read"
                                ELSE "handle"]
    /\ UNCHANGED <<tasks, wire, closed>>

\* read_request returns Ok(None) or an error: the loop is left
ReadEnd ==
    /\ conn.pc = "read"
    /\ conn' = [conn EXCEPT !.pc = "closed"]
    /\ UNCHANGED <<tasks, wire, closed>>

\* handle_command runs the next command of the read
HandleCommand ==
    /\ conn.pc = "handle"
    /\ LET next == for_next(conn.commands)
       IN  conn' = [conn EXCEPT
                      !.pc = "write",
                      !.command = next.command,
                      !.commands = next.rest,
                      !.response = execute(next.command),
                      !.log = Append(@, Event("dispatch", next.command, Null, TRUE))]
    /\ UNCHANGED <<tasks, wire, closed>>

\* write_response: write_all succeeds or fails, and the loop goes on
WriteResponse ==
    /\ conn.pc = "write"
    /\ \E fine \in BOOLEAN :
          conn' = [conn EXCEPT
                     !.pc = IF conn.commands = <<>> THEN "read" ELSE "handle",
                     !.log = Append(@, Event("write", conn.command, conn.response, fine))]
    /\ UNCHANGED <<tasks, wire, closed>>

ConnSpec ==
    Init /\ [][ReadRequest \/ ReadEnd \/ HandleCommand \/ WriteResponse]_vars

\* -------------------------------------------------------------- disconnect
\* the client of a blocked BLPOP closes its end; no step of the task reads
\* the socket while handle_command is awaited
Disconnect(c) ==
    /\ pc[c] = "bl_wait"
    /\ c \notin closed
    /\ closed' = closed \cup {c}
    /\ UNCHANGED <<tasks, wire, conn>>

\* the client closes its end, or the socket fails, between two commands:
\* the next read of the task returns Ok(0) or an error
Hangup(c) ==
    /\ pc[c] = "idle"
    /\ c \notin closed
    /\ closed' = closed \cup {c}
    /\ UNCHANGED <<tasks, wire, conn>>

\* a variant of the end of input in which the task goes on to run a command
ReadClosedGoesOn(c) == c \in closed /\ LPop(c)

\* between two commands the task reads the closed socket, gets Ok(None) or an
\* error and leaves its loop
ReadClosed(c) ==
    /\ At(c, "idle")
    /\ c \in closed
    /\ pc' = [pc EXCEPT ![c] = "ended"]
    /\ UNCHANGED <<data, dataLock, key_notifiers, cmd, seen, after, res, rx,
                   timer, clock, wake, last, rpushLog, pure, kv>>

\* the list commands under fair scheduling, with clients that hang up
CloseNext ==
    \/ \E c \in Clients : c \notin closed /\ ListIssue(c)
    \/ \E c \in Clients : ListStep(c)
    \/ \E c \in Clients : Disconnect(c)
    \/ \E c \in Clients : Hangup(c)
    \/ \E c \in Clients : ReadClosed(c)
    \/ Respond
    \/ Tick

CloseSpec ==
    /\ Init
    /\ [][CloseNext]_vars
    /\ \A c \in Clients : SF_vars(ListStep(c))
    /\ \A c \in Clients : WF_vars(ReadClosed(c))
    /\ SF_vars(Respond)
    /\ SF_vars(Tick)

\* ------------------------------------------------------------ the two locks
\* The list commands with the mutex of key_notifiers made explicit: a task
\* that is to notify or to subscribe first waits for that mutex, and holds it
\* until the tick is sent or the Receiver is made.
HoldsRegistry(c) == pc[c] \in {"push_send", "created_send", "bl_subscribe"}

\* self.key_notifiers.lock().await, in notify_key_modified and in
\* subscribe_to_key: the task goes on when no task holds the mutex
RegistryLock(c) ==
    /\ UNCHANGED kv
    /\ last.c = NoClient
    /\ pc[c] \in {"push_notify", "created_notify", "bl_elapsed"}
    /\ \A h \in Clients : ~HoldsRegistry(h)
    /\ pc' = [pc EXCEPT ![c] = CASE pc[c] = "push_notify" -> "push_send"
                                  [] pc[c] = "created_notify" -> "created_send"
                                  [] OTHER -> "bl_subscribe"]
    /\ UNCHANGED <<data, dataLock, key_notifiers, cmd, seen, after, res, rx,
                   timer, clock, wake, last, rpushLog, pure>>

\* notify_key_modified under the mutex: the tick is sent and the guard of the
\* registry dropped; the push returns, which in the Some arm drops the guard
\* of the list
NotifySend(c) ==
    /\ UNCHANGED kv
    /\ At(c, "push_send") \/ At(c, "created_send")
    /\ rx' = notify_key_modified(key_notifiers, rx, cmd[c].key)
    /\ dataLock' = IF dataLock = c THEN NoClient ELSE dataLock
    /\ UNCHANGED <<rpushLog, pure>>
    /\ Complete(c, cmd[c], seen[c], after[c], res[c],
                IF pc[c] = "push_send" THEN Integer(Len(data[cmd[c].key].list))
                ELSE Integer(Len(cmd[c].values)),
                wake)
    /\ UNCHANGED <<data, key_notifiers>>

\* a variant of Subscribe that needs the mutex of data while it holds the
\* mutex of the registry
SubscribeUnderData(c) ==
    /\ UNCHANGED kv
    /\ At(c, "bl_subscribe")
    /\ dataLock = NoClient
    /\ key_notifiers' = key_notifiers \cup {cmd[c].key}
    /\ rx' = [rx EXCEPT ![c] = "empty"]
    /\ timer' = [timer EXCEPT ![c] =
                     sleep(remaining_timeout(cmd[c].timeout, clock[c]))]
    /\ pc' = [pc EXCEPT ![c] = "bl_wait"]
    /\ UNCHANGED <<data, dataLock, cmd, seen, after, res, clock, wake, last,
                   rpushLog, pure>>

\* subscribe_to_key under the mutex: the Sender of the key is made if there
\* is none, the Receiver is made, the guard is dropped and the wait starts
Subscribe(c) ==
    /\ UNCHANGED kv
    /\ At(c, "bl_subscribe")
    /\ key_notifiers' = key_notifiers \cup {cmd[c].key}
    /\ rx' = [rx EXCEPT ![c] = "empty"]
    /\ timer' = [timer EXCEPT ![c] =
                     sleep(remaining_timeout(cmd[c].timeout, clock[c]))]
    /\ pc' = [pc EXCEPT ![c] = "bl_wait"]
    /\ UNCHANGED <<data, dataLock, cmd, seen, after, res, clock, wake, last,
                   rpushLog, pure>>

\* the steps of a running command; no time passes, so no BLPOP times out
LockTask(c) ==
    \/ PushCreate(c)
    \/ BlpopTryPop(c)
    \/ RegistryLock(c)
    \/ NotifySend(c)
    \/ Subscribe(c)
    \/ WaitNotified(c)

LockNext ==
    (\E c \in Clients : ListIssue(c) \/ LockTask(c)) \/ Respond

LockSpec == Init /\ [][LockNext]_vars

\* the writers of every type, with TYPE
TypeStep(c) ==
    \/ PushOne(c)
    \/ PushNotify(c)
    \/ PushCreate(c)
    \/ CreatedNotify(c)
    \/ XAdd(c)
    \/ XAddStore(c)
    \/ LPop(c)
    \/ Set(c)
    \/ ZAdd(c)
    \/ ZRem(c)
    \/ Type(c)
    \/ LLen(c)

TypeNext == (\E c \in Clients : TypeStep(c)) \/ Respond

TypeSpec == Init /\ [][TypeNext]_vars

\* ZADD with flags, beside ZREM
FlagStep(c) == ZAddFlags(c) \/ ZRem(c)

FlagNext == (\E c \in Clients : FlagStep(c)) \/ Respond

FlagSpec == Init /\ [][FlagNext]_vars

\* SET and GET alone, as time passes, on a key of every type
PriorValues ==
    {NoneV, ListV(<<"a">>), StreamV({"e1"}), KeyValueV("a", NoExpiry),
     ZSetV(replace(RedisSortedSet, SortedValue("m", 1)).ss)}

KvInit ==
    /\ Fresh
    /\ pure = [k \in Keys |-> FALSE]
    /\ data \in [Keys -> PriorValues]

KvStep(c) == Set(c) \/ Get(c)

KvNext == (\E c \in Clients : KvStep(c)) \/ Respond \/ Elapse

KvSpec == KvInit /\ [][KvNext]_vars

Served(c) ==
    /\ last.c = c
    /\ last.cmd.op = "BLPOP"
    /\ last.seen.list # <<>>
    /\ last.reply = Array(<<bulk_string(last.cmd.key),
                            bulk_string(Head(last.seen.list))>>)

\* C1: a BLPOP with a timeout above 0 that started on an empty or absent list,
\* saw an RPUSH of another connection on its key before the timeout elapsed
\* and had no other consumer beside it, returns [key, element] and not the
\* null array.
C1_RpushServesBlpop ==
    (last.cmd.op = "BLPOP" /\ last.cmd.timeout > 0 /\ last.wake = "RPUSH")
        => Served(last.c)

\* C2: a BLPOP with timeout 0 never returns the null array, and once an
\* element has been pushed to its key (and no other consumer takes it) the
\* BLPOP returns [key, element].
C2_ZeroBlocksUntilPush ==
    /\ [](last.cmd.op = "BLPOP" /\ last.cmd.timeout = 0 => last.reply # NullArray)
    /\ \A c \in Clients :
          (InBlpop(c) /\ cmd[c].timeout = 0 /\ wake[c] \in {"RPUSH", "LPUSH"})
              ~> (Served(c) \/ wake[c] = "void")

\* the BLPOP of task c has returned the null array
TimedOut(c) ==
    /\ last.c = c
    /\ last.cmd.op = "BLPOP"
    /\ last.reply = NullArray

Unsent(c) ==
    /\ cmd[c].op \in {"RPUSH", "LPUSH"}
    /\ pc[c] \in {"push_notify", "created_notify"}

\* C4: no state is reachable in which a push has made the list non-empty, the
\* pusher has released the keyspace lock and the notification for that push
\* has not been sent, whether the list existed or the push created it.
C4_NotifyBeforeRelease ==
    \A c \in Clients :
        (Unsent(c) /\ data[cmd[c].key].list # <<>>) => dataLock = c

\* ---------------------------------------------------------- type errors
\* the type of value a command works on
ValueType(op) ==
    CASE op \in {"LPOP", "LRANGE", "RPUSH", "LPUSH", "BLPOP"} -> "list"
      [] op = "GET" -> "string"
      [] op = "XADD" -> "stream"
      [] OTHER -> "zset"

\* the command completed last found a value of another type at its key
OnWrongType == last.seen.tag \notin {"none", ValueType(last.cmd.op)}

\* C5: LPOP, LRANGE, ZCARD, ZSCORE, ZRANGE and GET on a key holding a value of
\* another type reply the WRONGTYPE error and leave the value unchanged.
C5_ReadWrongType ==
    (last.cmd.op \in {"LPOP", "LRANGE", "ZCARD", "ZSCORE", "ZRANGE", "GET"}
        /\ OnWrongType)
        => (last.reply = error(WRONGTYPE) /\ last.after = last.seen)

\* C6: RPUSH and LPUSH on a key holding a value that is not a list reply the
\* WRONGTYPE error and leave the value unchanged.
C6_PushWrongType ==
    (last.cmd.op \in {"RPUSH", "LPUSH"} /\ OnWrongType)
        => (last.reply = error(WRONGTYPE) /\ last.after = last.seen)

\* C7: create_or_update_key (called by XADD) returns Created and stores the
\* value when the key is absent, returns Updated and replaces the value when
\* the key holds a value of the same type, and returns the WRONGTYPE error
\* without touching the stored value when the key holds another type.
C7_CreateOrUpdate ==
    (last.cmd.op = "XADD" /\ last.res # NoRes) =>
        CASE last.seen.tag = "none" ->
                last.res = Created /\ last.after.tag = "stream"
          [] last.seen.tag = "stream" ->
                last.res = Updated /\ last.after.tag = "stream"
          [] OTHER ->
                last.res = KeyError(WRONGTYPE) /\ last.after = last.seen

\* ------------------------------------------------------------- list order
\* C8: starting from an absent key, after any sequence of RPUSH commands on
\* it LRANGE key 0 -1 returns all the pushed values in push order, and every
\* RPUSH replies the length of the list right after its push.
C8_RpushThenLrange ==
    /\ \A k \in Keys : pure[k] => data[k] \in {NoneV, ListV(rpushLog[k])}
    /\ (last.cmd.op = "RPUSH" /\ last.pure)
          => last.reply = Integer(Len(last.log))
    /\ (last.cmd.op = "LRANGE" /\ last.cmd.start = 0 /\ last.cmd.end = 0 - 1
            /\ last.pure)
          => last.reply = Array(Bulks(last.log))

C8_Witness ==
    /\ last.cmd.op = "LRANGE"
    /\ last.cmd.start = 0
    /\ last.cmd.end = 0 - 1
    /\ last.pure
    /\ last.log = <<"a", "b", "a">>
    /\ last.reply = Array(Bulks(<<"a", "b", "a">>))

\* C9: LPUSH key v1 .. vn prepends the values one by one, so that a list L
\* becomes [vn, .., v1] followed by L, and replies the new length.
C9_LpushPrepends ==
    (last.cmd.op = "LPUSH" /\ ~OnWrongType) =>
        /\ last.after = ListV(Reverse(last.cmd.values) \o last.seen.list)
        /\ last.reply = Integer(Len(last.cmd.values) + Len(last.seen.list))

C9_Witness ==
    /\ last.cmd.op = "LPUSH"
    /\ last.cmd.values = <<"a", "b">>
    /\ last.seen.list = <<"a">>
    /\ last.after.list = <<"b", "a", "a">>
    /\ last.reply = Integer(3)

\* ----------------------------------------------------------------- LRANGE
\* the positions of LRANGE as the index normalization gives them: a negative
\* index has the length added, start is clamped up to 0, end down to len - 1
Normalized(start, end, size) ==
    LET start1 == IF start < 0 THEN start + size ELSE start
        end1 == IF end < 0 THEN end + size ELSE end
    IN  [s |-> Max(start1, 0), e |-> Min(end1, size - 1)]

\* C10: on a list of length len LRANGE returns the elements at the positions
\* s..e of the normalized indexes, and the empty array when s > e or s >= len.
C10_LrangeSlice ==
    (last.cmd.op = "LRANGE" /\ last.seen.tag = "list") =>
        LET list == last.seen.list
            n == Normalized(last.cmd.start, last.cmd.end, Len(list))
        IN  last.reply = IF n.s > n.e \/ n.s >= Len(list) THEN Array(<<>>)
                         ELSE Array(Bulks(SubSeq(list, n.s + 1, n.e + 1)))

\* C11: LRANGE never reads a position outside 0..len-1 of the list, whatever
\* start and end are: the task does not panic, the positions treat_bounds
\* returns satisfy s <= e < len, and on an empty list the reply is the empty
\* array.
C11_LrangeInBounds ==
    (last.cmd.op = "LRANGE" /\ last.seen.tag = "list") =>
        LET length == Len(last.seen.list)
            bounds == treat_bounds(last.cmd.start, last.cmd.end, length)
        IN  /\ last.reply # Panic
            /\ bounds # None => (bounds[1][1] <= bounds[1][2] /\ bounds[1][2] < length)
            /\ length = 0 => last.reply = Array(<<>>)

\* ------------------------------------------------------------------- LPOP
\* C12: LPOP key count on a list of len >= 1 values removes the first
\* min(count, len) of them and returns them head first, as one bulk string
\* when count = 1 and as an array when count > 1; the rest keeps its order.
C12_LpopTakesHead ==
    (last.cmd.op = "LPOP" /\ last.seen.tag = "list" /\ last.seen.list # <<>>) =>
        LET list == last.seen.list
            n == Min(last.cmd.count, Len(list))
        IN  /\ last.after = ListV(SubSeq(list, n + 1, Len(list)))
            /\ last.reply = IF last.cmd.count = 1 THEN bulk_string(list[1])
                            ELSE Array(Bulks(SubSeq(list, 1, n)))

C12_Witness ==
    /\ last.cmd.op = "LPOP"
    /\ last.cmd.count = 2
    /\ last.seen.list = <<"a", "b", "a">>
    /\ last.after.list = <<"a">>
    /\ last.reply = Array(Bulks(<<"a", "b">>))

\* C13: LPOP on an absent key or on an empty list replies the null bulk for
\* every count >= 1 and leaves the keyspace unchanged.
C13_LpopNothing ==
    (last.cmd.op = "LPOP" /\ last.seen.tag \in {"none", "list"}
        /\ last.seen.list = <<>>)
        => (last.reply = Null /\ last.after = last.seen)

C16_MapMatchesSet ==
    \A k \in Keys : data[k].tag = "zset" => data[k].zset.map = data[k].zset.set

\* a member was given a new score and another member was removed
C16_Witness ==
    /\ last.cmd.op = "ZREM"
    /\ last.reply = Integer(1)
    /\ last.seen.zset.map = {SortedValue("m", 2), SortedValue("n", 1)}
    /\ last.after.zset.set = {SortedValue("m", 2)}

\* the rank the claim gives a member: the number of pairs before it by score
\* ascending, then by member ascending
Position(pairs, member) ==
    LET mine == CHOOSE v \in pairs : v.member = member
        rank(m) == CHOOSE i \in DOMAIN MemberOrder : MemberOrder[i] = m
    IN  Cardinality({v \in pairs :
            \/ v.score < mine.score
            \/ v.score = mine.score /\ rank(v.member) < rank(mine.member)})

\* C17: ZRANK of a member is its 0-based position among the pairs of the set
\* ordered by score ascending, then member ascending; ZRANK of a non-member
\* or on an absent key is null; ZCARD is the number of distinct members.
C17_RankIsPosition ==
    LET pairs == last.seen.zset.map
        members == {v.member : v \in pairs}
    IN  /\ last.cmd.op = "ZRANK" /\ last.seen.tag \in {"none", "zset"} =>
              last.reply = IF last.cmd.member \in members
                           THEN Integer(Position(pairs, last.cmd.member))
                           ELSE Null
        /\ last.cmd.op = "ZCARD" /\ last.seen.tag \in {"none", "zset"} =>
              last.reply = Integer(Cardinality(members))

\* the member with the highest score is first by name and last by rank
C17_Witness ==
    /\ last.cmd.op = "ZRANK"
    /\ last.cmd.member = "m"
    /\ last.seen.zset.map =
          {SortedValue("m", 2), SortedValue("n", 1), SortedValue("o", 1)}
    /\ last.reply = Integer(2)

\* C18: ZRANGE normalizes start and end against the size of the set as LRANGE
\* does and returns the members at the ranks s..e in ascending order; the
\* reply is the empty array when s > e, when start >= size, or when the key
\* is absent.
C18_ZrangeSlice ==
    (last.cmd.op = "ZRANGE" /\ last.seen.tag \in {"none", "zset"}) =>
        LET items == iter(last.seen.zset.set)
            size == Len(items)
            n == Normalized(last.cmd.start, last.cmd.end, size)
        IN  last.reply =
                IF last.seen.tag = "none" \/ n.s > n.e \/ n.s >= size
                THEN Array(<<>>)
                ELSE Array([i \in 1..(n.e - n.s + 1) |->
                                bulk_string(items[n.s + i].member)])

\* the members a ZADD lists, and the last score it lists for a member
Listed(values) == {values[i].member : i \in 1..Len(values)}
LastScore(values, member) ==
    LET i == CHOOSE j \in 1..Len(values) :
                /\ values[j].member = member
                /\ \A l \in (j + 1)..Len(values) : values[l].member # member
    IN  values[i].score

\* C19: ZADD without flags replies the number of listed members that were not
\* in the set before; a member already there, or listed twice, is counted at
\* most once and ends with the last score listed for it.
C19_ZaddCountsNew ==
    (last.cmd.op = "ZADD" /\ last.seen.tag \in {"none", "zset"}) =>
        LET values == last.cmd.pairs
            before == {v.member : v \in last.seen.zset.map}
        IN  /\ last.reply = Integer(Cardinality(Listed(values) \ before))
            /\ \A m \in Listed(values) :
                  map_get(last.after.zset.map, m)
                      = Some(SortedValue(m, LastScore(values, m)))
            /\ \A v \in last.seen.zset.map :
                  v.member \notin Listed(values) => v \in last.after.zset.map

\* a member of the set listed twice, with a new member
C19_Witness ==
    /\ last.cmd.op = "ZADD"
    /\ last.seen.zset.map = {SortedValue("m", 1), SortedValue("n", 2)}
    /\ last.cmd.pairs = <<SortedValue("n", 1), SortedValue("n", 2)>>
    /\ last.reply = Integer(0)

\* the flags of a ZADD that exclude one another: NX with XX, GT with LT, NX
\* with GT or LT
Exclusive(args) ==
    LET words == {to_ascii_uppercase(args[i]) : i \in 1..Len(args)}
    IN  \/ {"NX", "XX"} \subseteq words
        \/ {"GT", "LT"} \subseteq words
        \/ "NX" \in words /\ words \cap {"GT", "LT"} # {}

\* C20: a ZADD whose flags exclude one another is answered with a parse error
\* and leaves the keyspace as it was.
C20_ExclusiveFlags ==
    (last.cmd.op = "ZADD" /\ Exclusive(last.cmd.values)) =>
        (last.reply.t = "error" /\ last.after = last.seen)

C30_NoLostWakeup ==
    \A c \in Clients :
        (/\ pc[c] = "bl_wait"
         /\ rx[c] = "empty"
         /\ data[cmd[c].key].tag = "list"
         /\ data[cmd[c].key].list # <<>>)
            => \E d \in Clients :
                  /\ pc[d] \in {"push_notify", "created_notify"}
                  /\ cmd[d].key = cmd[c].key

\* ------------------------------------------------------------------- TYPE
\* the commands that store a value, and the tag of the value each stores
Stores(op) == op \in {"RPUSH", "LPUSH", "SET", "ZADD", "XADD"}
StoredTag(op) ==
    CASE op \in {"RPUSH", "LPUSH"} -> "list"
      [] op = "SET" -> "string"
      [] op = "ZADD" -> "zset"
      [] OTHER -> "stream"

C27_RoundTrip ==
    wire.parsed # None =>
        wire.parsed[1] = [ok |-> TRUE, results |-> <<wire.value>>]

\* ------------------------------------------------------------- connection
\* the commands handed to handle_command, and the values handed to
\* write_response, in order
Dispatched ==
    LET d == SelectSeq(conn.log, LAMBDA ev : ev.e = "dispatch")
    IN  [i \in DOMAIN d |-> d[i].command]
Written ==
    LET w == SelectSeq(conn.log, LAMBDA ev : ev.e = "write")
    IN  [i \in DOMAIN w |-> w[i].value]

\* the commands of the reads, in the order they were parsed
RECURSIVE CommandsOf(_)
CommandsOf(reads) ==
    IF reads = <<>> THEN <<>>
    ELSE RedisCommand_parse(Head(reads)).commands \o CommandsOf(Tail(reads))

\* the handler waits for a read, or has left its loop
AtRest == conn.pc \in {"read", "closed"}

\* C22: the commands of a connection run one at a time in the order they were
\* parsed: the event after the dispatch of a command is the write of the
\* response to that command, and the commands dispatched so far are the first
\* of the commands parsed.
C22_OneAtATime ==
    /\ \A i \in 1..(Len(conn.log) - 1) :
          conn.log[i].e = "dispatch" =>
              /\ conn.log[i + 1].e = "write"
              /\ conn.log[i + 1].command = conn.log[i].command
              /\ conn.log[i + 1].value = execute(conn.log[i].command)
    /\ Len(Dispatched) <= Len(CommandsOf(conn.reads))
    /\ Dispatched = SubSeq(CommandsOf(conn.reads), 1, Len(Dispatched))

\* two reads, of two commands and of one, all answered in order
C22_Witness ==
    /\ conn.reads = <<Ping \o EchoA, EchoA>>
    /\ AtRest
    /\ Len(Dispatched) = 3
    /\ Written = <<execute(Dispatched[1]), bulk_string(<<"a">>), bulk_string(<<"a">>)>>

\* the response owed to each top-level request of a batch
Owed(batch) ==
    LET requests == parse(batch).results
    IN  [i \in DOMAIN requests |->
            LET one == build(<<requests[i]>>)
            IN  IF one.ok THEN execute(one.commands[1]) ELSE error(one.msg)]

\* C23: after one read of a batch of requests, with every write succeeding,
\* the handler has written one response per request, in order: an error for a
\* request whose arguments do not parse, the reply of the command for the
\* others.
C23_OnePerRequest ==
    (/\ Len(conn.reads) = 1
     /\ conn.reads[1] \in Batches
     /\ AtRest
     /\ \A i \in DOMAIN conn.log : conn.log[i].ok)
        => Written = Owed(conn.reads[1])

\* the first read returned a part of a request, and not all of it
SplitOf(request) ==
    /\ conn.reads # <<>>
    /\ conn.reads[1] # <<>>
    /\ Len(conn.reads[1]) < Len(request)
    /\ conn.reads[1] = SubSeq(request, 1, Len(conn.reads[1]))

\* C24: a request that arrives in two reads is run once, as the command it
\* is: the handler is not ended by the first part, runs nothing for it, and
\* after the second part has run the command of the whole request.
C24_SplitRequest ==
    SplitOf(EchoA) =>
        /\ conn.pc # "panicked"
        /\ (Len(conn.reads) = 1 /\ AtRest) => Dispatched = <<>>
        /\ (/\ Len(conn.reads) = 2
            /\ conn.reads[1] \o conn.reads[2] = EchoA
            /\ AtRest) => Dispatched = RedisCommand_parse(EchoA).commands

\* C25: after a write that failed no command of the connection is dispatched.
C25_CloseOnWriteError ==
    \A i \in DOMAIN conn.log : \A j \in DOMAIN conn.log :
        (i < j /\ conn.log[i].e = "write" /\ ~conn.log[i].ok)
            => conn.log[j].e # "dispatch"

\* C26: a read of bytes the codec must reject does not end the task; the
\* handler writes an error and waits for the next read.
C26_RejectAndGoOn ==
    (conn.reads # <<>> /\ conn.reads[Len(conn.reads)] \in Malformed) =>
        /\ conn.pc # "panicked"
        /\ AtRest => /\ conn.log # <<>>
                     /\ conn.log[Len(conn.log)].e = "write"
                     /\ conn.log[Len(conn.log)].value.t = "error"

\* ------------------------------------------------------------- disconnect
\* C28: once the client of a blocked BLPOP has closed its end, the task of
\* the connection ends, by leaving its loop or by a panic.
C28_DisconnectCancels ==
    \A c \in Clients :
        (c \in closed /\ pc[c] = "bl_wait") ~> (pc[c] \in {"ended", "panicked"})

\* ------------------------------------------------------ concurrent commands
\* C31: an RPUSH or LPUSH that finds its key absent or holding a list, however
\* the pushes of other connections interleave with it, replies an integer and
\* leaves its values in the list.
C31_PushAtomic ==
    (last.cmd.op \in {"RPUSH", "LPUSH"} /\ last.seen.tag \in {"none", "list"}) =>
        /\ last.reply.t = "int"
        /\ \A i \in DOMAIN last.cmd.values :
              \E j \in DOMAIN last.after.list :
                  last.after.list[j] = last.cmd.values[i]

\* the BLPOP of task c was woken by a notification, found the list empty and
\* its timeout has not elapsed
WokenInVain(c) ==
    /\ pc[c] = "bl_elapsed"
    /\ res[c] = Notified
    /\ ~timed_out(cmd[c].timeout, clock[c])

\* C32: a BLPOP that returns an element returns the head of the list and takes
\* it off the list in that same step, so no other consumer can be given it;
\* and a consumer that was woken and found the list empty waits again.
C32_OneConsumerEach ==
    /\ [](last.cmd.op = "BLPOP" /\ last.reply.t = "array" =>
            /\ last.seen.list # <<>>
            /\ last.reply = Array(<<bulk_string(last.cmd.key),
                                    bulk_string(Head(last.seen.list))>>)
            /\ last.after.list = Tail(last.seen.list)
            /\ data[last.cmd.key] = last.after)
    /\ [][\A c \in Clients :
            WokenInVain(c) => pc'[c] \in {"bl_elapsed", "bl_wait"}]_vars

\* C34: an XADD that replies its entry id has added the entry to the stream
\* that was at the key when it stored: the entries other XADDs added meanwhile
\* are kept, and a value of another type found there is not replaced.
C34_XaddAtomic ==
    (last.cmd.op = "XADD" /\ last.reply = bulk_string(last.cmd.id)) =>
        IF last.seen.tag \in {"none", "stream"}
        THEN /\ last.after.tag = "stream"
             /\ last.after.stream = last.seen.stream \cup {last.cmd.id}
        ELSE last.after = last.seen

\* C35: create stores the value and returns Created when the key is absent;
\* when the key holds a value, of whatever type, it returns the error and the
\* value stays as it was.  (create is called by the pushes that found no list.)
C35_Create ==
    (last.cmd.op \in {"RPUSH", "LPUSH"} /\ last.res # NoRes) =>
        IF last.seen.tag = "none"
        THEN /\ last.res = Created
             /\ last.after = ListV(PushValues(last.cmd.op, <<>>, last.cmd.values))
        ELSE /\ last.res = KeyError(KeyExists)
             /\ last.after = last.seen
             /\ data[last.cmd.key] = last.seen

\* create found a sorted set that a ZADD had stored since the push looked
C35_Witness ==
    /\ last.cmd.op \in {"RPUSH", "LPUSH"}
    /\ last.res = KeyError(KeyExists)
    /\ last.seen.tag = "zset"
    /\ data[last.cmd.key] = last.seen

\* ------------------------------------------------------------ the two locks
\* task c is suspended on the mutex of data, or on the mutex of the registry
WaitsForData(c) == pc[c] \in {"push_create", "bl_lpop"} /\ dataLock # NoClient
WaitsForRegistry(c) ==
    /\ pc[c] \in {"push_notify", "created_notify", "bl_elapsed"}
    /\ \E h \in Clients : HoldsRegistry(h)

\* C36: whenever a task is suspended on one of the two mutexes and the last
\* reply has been written, a task that holds a mutex can take its next step,
\* and no task holds the registry while it waits for the data.
C36_NoDeadlock ==
    /\ \A c \in Clients : ~(HoldsRegistry(c) /\ WaitsForData(c))
    /\ \A c \in Clients :
          (last.c = NoClient /\ (WaitsForData(c) \/ WaitsForRegistry(c))) =>
              \E h \in Clients :
                  /\ dataLock = h \/ HoldsRegistry(h)
                  /\ ENABLED LockTask(h)

\* a pusher holds the list and waits for the registry, which a subscriber
\* holds
C36_Witness ==
    \E a \in Clients : \E b \in Clients :
        /\ dataLock = a
        /\ pc[a] = "push_notify"
        /\ pc[b] = "bl_subscribe"
        /\ WaitsForRegistry(a)

\* ------------------------------------------------------------------- LLEN
\* C38: LLEN replies the length of the list at its key, 0 when the key is
\* absent, and leaves the keyspace as it was: after LLEN on an absent key the
\* key is absent and its type is none.
C38_LlenReadsOnly ==
    (last.cmd.op = "LLEN" /\ last.seen.tag \in {"none", "list"}) =>
        /\ last.reply = Integer(Len(last.seen.list))
        /\ last.after = last.seen
        /\ data[last.cmd.key] = last.seen
        /\ last.seen.tag = "none" =>
              to_type_resp(data[last.cmd.key]) = simple_string("none")

\* ------------------------------------------------------------ BLPOP wait
\* C37: whenever BLPOP computes the remaining wait, the timeout in
\* milliseconds minus the elapsed milliseconds, the difference is not
\* negative, for every timeout from 0 up and after any number of wake-ups:
\* the unsigned subtraction does not underflow.
ComputesRemaining(c) ==
    pc[c] = "bl_elapsed" /\ ~timed_out(cmd[c].timeout, clock[c])
C37_RemainingNonNegative ==
    \A c \in Clients :
        ComputesRemaining(c) =>
            /\ cmd[c].timeout - clock[c] >= 0
            /\ remaining_timeout(cmd[c].timeout, clock[c]) = cmd[c].timeout - clock[c]

\* ------------------------------------------------------- BLPOP, blocked
\* a task in the middle of a command, at a step that is not the wait of BLPOP
Running(d) ==
    pc[d] \in {"push_notify", "push_create", "created_notify", "bl_lpop", "bl_elapsed"}

\* C33: a blocked BLPOP holds no lock of the keyspace.  While it waits, the
\* commands of the other connections, on any key and pushes to the awaited
\* key included, run to completion: a command that has started has a step to
\* take, or waits for a lock held by a task that is not blocked and has one,
\* and a connection between two commands can start one.
C33_BlockedHoldsNoLock ==
    \A c \in Clients :
        pc[c] = "bl_wait" =>
            /\ dataLock # c
            /\ \A d \in Clients \ {c} :
                  /\ (last.c = NoClient /\ Running(d)) =>
                        \/ ENABLED ListStep(d)
                        \/ \E e \in Clients :
                              dataLock = e /\ pc[e] # "bl_wait" /\ ENABLED ListStep(e)
                  /\ (last.c = NoClient /\ pc[d] = "idle" /\ dataLock = NoClient) =>
                        ENABLED LPop(d) /\ ENABLED BLPop(d)

\* a push to the awaited key has replied its length while the BLPOP still waits
C33_Witness ==
    \E c \in Clients :
        /\ pc[c] = "bl_wait"
        /\ last.c \in Clients \ {c}
        /\ last.cmd.op \in {"RPUSH", "LPUSH"}
        /\ last.cmd.key = cmd[c].key
        /\ last.reply.t = "int"

\* ------------------------------------------------------------ end of input
\* C39: when the read of a connection returns 0 bytes or an error, the task
\* of that connection ends: it runs no further command and writes no reply,
\* neither then nor later.  The keyspace is left as it is and the tasks of
\* the other connections go on: the ended task holds no lock, a command that
\* has started has a step to take or waits for a lock whose holder is running
\* and has one, and an open connection between two commands can start one.
C39_EndOfInput ==
    /\ [][\A c \in Clients :
            (c \in closed /\ At(c, "idle")) =>
                /\ pc'[c] \in {"idle", "ended"}
                /\ last'.c # c]_vars
    /\ [][\A c \in Clients :
            (pc[c] = "idle" /\ pc'[c] = "ended") =>
                /\ last' = last
                /\ data' = data
                /\ dataLock' = dataLock
                /\ key_notifiers' = key_notifiers]_vars
    /\ [][\A c \in Clients :
            pc[c] = "ended" => pc'[c] = "ended" /\ last'.c # c]_vars
    /\ [](\A c \in Clients :
            pc[c] = "ended" =>
                /\ dataLock # c
                /\ \A d \in Clients \ {c} :
                      /\ (last.c = NoClient /\ Running(d)) =>
                            \/ ENABLED ListStep(d)
                            \/ \E e \in Clients :
                                  dataLock = e /\ pc[e] # "ended" /\ ENABLED ListStep(e)
                      /\ (last.c = NoClient /\ pc[d] = "idle" /\ d \notin closed
                             /\ dataLock = NoClient) =>
                            ENABLED (d \notin closed /\ ListIssue(d)))

\* the task of one connection has ended and a push of another has replied
C39_Witness ==
    \E c \in Clients :
        /\ pc[c] = "ended"
        /\ last.c \in Clients \ {c}
        /\ last.cmd.op \in {"RPUSH", "LPUSH"}
        /\ last.reply.t = "int"
        /\ data[last.cmd.key] = last.after

====
